---------------------------- MODULE Spec2Model ----------------------------
(***************************************************************************)
(* Model of the competitive analysis engine of coder4052/market_analysis   *)
(* (src/analysis_engine.py, class BusinessAnalyzer).                       *)
(*                                                                         *)
(* A table (pandas DataFrame) is a record [columns, rows]: the set of      *)
(* column names that exist and the sequence of its rows.  Every row is a   *)
(* record with one field per column the program knows; the field of a      *)
(* column the table does not have holds NaN, which is what pd.concat puts  *)
(* there when tables with different columns are combined.                  *)
(*                                                                         *)
(* Column names (the source uses Korean headers):                          *)
(*   brand = beuraendeu, product_name = jepummyeong, volume = yongnyang(ml)*)
(*   count = gaesu, lowest_price = choejeoga(baesongbi poham),             *)
(*   unit_price = choejeoga danwigagyeok(100ml dang),                      *)
(*   factory = gongjanghyeong yeobu, reviews = ribyu gaesu,                *)
(*   rating = pyeongjeom, platform = peullaetpom.                          *)
(***************************************************************************)
EXTENDS Integers, Sequences, FiniteSets, TLC

VARIABLES
    df_list,           \* argument of analyze_business_critical_data
    returned,          \* outcome of the last call: "idle", "none", "value", "raised"
    analysis_results,  \* the report of the last call (EmptyReport unless "value")
    handmade_df,       \* second element of the returned tuple
    all_products_df,   \* third element of the returned tuple
    prev_results,      \* the report of the call before the last one
    warnings,          \* the st.warning signals of the last call
    now,               \* datetime.now(), a logical clock
    calls,             \* number of calls made so far
    df,                \* argument of a method of the analyzer called on its own
    method,            \* the method that was called on df ("" before the call)
    result,            \* what that method returned
    token,             \* whether a GitHub token is configured
    store,             \* the analysis_results files of the remote repository
    save_result,       \* the outcome of the last save of a report
    shown,             \* what the dashboard displays
    other_files,       \* the other files of the remote directory
    analysis_settings,        \* self.analysis_settings of the analyzer
    business_insights_config  \* self.business_insights_config of the analyzer

vars == <<df_list, returned, analysis_results, handmade_df, all_products_df,
          prev_results, warnings, now, calls, df, method, result,
          token, store, save_result, shown, other_files,
          analysis_settings, business_insights_config>>

configVars == <<analysis_settings, business_insights_config>>

storageVars == <<token, store, save_result, shown, other_files>>

pipelineVars == <<df_list, returned, analysis_results, handmade_df,
                  all_products_df, prev_results, warnings, now, calls>>

methodVars == <<df, method, result>>

\* What a method called on its own leaves alone.
callVars == <<df, df_list, returned, analysis_results, handmade_df,
              all_products_df, prev_results, now, calls,
              token, store, save_result, shown, other_files,
              analysis_settings, business_insights_config>>

-----------------------------------------------------------------------------
(* Bounds of the model *)

MaxTables == 2      \* tables in df_list
MaxRows == 2        \* rows in df_list, over all its tables
MaxCalls == 2       \* calls of the pipeline on one df_list
MaxResolverRows == 3    \* rows of a table handed to the identity resolver
MaxShareBrands == 11    \* brands of a table handed to the market-share analysis
MaxShareProducts == 12  \* unique products of such a table
MaxOurRows == 1         \* our rows of a table handed to the competitor matcher
MaxCompetitorRows == 2  \* competitor rows of such a table
MaxFaultRows == 3       \* rows of a table with cells that were not coerced
MaxInsightRows == 2     \* rows of a table handed to one insight on its own
MaxStorageRows == 1     \* rows of the table whose report is saved
MaxColumnRows == 1      \* rows of a table with a subset of the columns
MaxScorerRows == 2      \* rows of a table whose products of ours are scored
MaxCohortRows == 2      \* competitor rows around the bounds of the similar tier
MaxDetailRows == 6      \* competitor rows of a cohort whose details are listed
MaxMainCompetitors == 6 \* greatest configured main_competitors_count
MaxStoredFiles == 3      \* analysis files of the remote directory before a call
MaxKeep == 3             \* greatest number of files a cleanup is asked to keep

-----------------------------------------------------------------------------
(* Values *)

\* A missing numeric cell (float NaN); numeric cells are naturals otherwise.
NaN == -1

\* A missing text cell.
NaNText == "NaN"

\* AppConfig.OUR_BRAND
OUR_BRAND == "OUR"

KeyColumns == <<"brand", "product_name", "volume", "count">>

AllColumns == {"brand", "product_name", "volume", "count", "lowest_price",
               "unit_price", "factory", "reviews", "rating", "platform"}

\* Collation of the text values the model uses (Hangul sorts after Latin).
TextOrder == <<"A", "B", "C", "D", "E", "F", "G", "H", "I", "J", "K", "L", "M", "N",
               "NaN", "O", "P", "Q", "R", "S", "T", "U", "V", "W", "X", "Y", "Z", "OUR">>

TextRank(s) == CHOOSE i \in 1..Len(TextOrder) : TextOrder[i] = s

\* pd.isna of a numeric cell and of a text cell.
isna(v) == v = NaN

isnaText(v) == v = NaNText

Range(s) == {s[i] : i \in 1..Len(s)}

Min(S) == CHOOSE x \in S : \A y \in S : x <= y

Max(S) == CHOOSE x \in S : \A y \in S : x >= y

RECURSIVE SumSeq(_)
SumSeq(s) == IF s = <<>> THEN 0 ELSE Head(s) + SumSeq(Tail(s))

\* The rows of a table that satisfy a mask, in table order (df[mask]).
Select(rows, Test(_)) == SelectSeq(rows, Test)

EmptyTable == [columns |-> {}, rows |-> <<>>]

\* A row restricted to the columns its table has.
Project(r, cols) ==
    [brand        |-> IF "brand" \in cols THEN r.brand ELSE NaNText,
     product_name |-> IF "product_name" \in cols THEN r.product_name ELSE NaNText,
     volume       |-> IF "volume" \in cols THEN r.volume ELSE NaN,
     count        |-> IF "count" \in cols THEN r.count ELSE NaN,
     lowest_price |-> IF "lowest_price" \in cols THEN r.lowest_price ELSE NaN,
     unit_price   |-> IF "unit_price" \in cols THEN r.unit_price ELSE NaN,
     factory      |-> IF "factory" \in cols THEN r.factory ELSE NaN,
     reviews      |-> IF "reviews" \in cols THEN r.reviews ELSE NaN,
     rating       |-> IF "rating" \in cols THEN r.rating ELSE NaN,
     platform     |-> IF "platform" \in cols THEN r.platform ELSE NaNText]

\* pd.concat(df_list, ignore_index=True): union of the columns, rows in order.
RECURSIVE ConcatRows(_)
ConcatRows(l) == IF l = <<>> THEN <<>> ELSE Head(l).rows \o ConcatRows(Tail(l))

Concat(l) ==
    [columns |-> UNION {l[i].columns : i \in 1..Len(l)},
     rows    |-> ConcatRows(l)]

-----------------------------------------------------------------------------
(* Product Identity Resolver: _calculate_unique_products *)

\* available_cols: the key columns the table has.
AvailableCols(t) == {c \in Range(KeyColumns) : c \in t.columns}

\* Mutant: the pack count is left out of the group key.
GroupKeyWithoutCount(r, gcols) ==
    <<IF "brand" \in gcols THEN r.brand ELSE NaNText,
      IF "product_name" \in gcols THEN r.product_name ELSE NaNText,
      IF "volume" \in gcols THEN r.volume ELSE NaN,
      NaN>>

\* The group key of a row: its values in the group columns.
GroupKey(r, gcols) ==
    <<IF "brand" \in gcols THEN r.brand ELSE NaNText,
      IF "product_name" \in gcols THEN r.product_name ELSE NaNText,
      IF "volume" \in gcols THEN r.volume ELSE NaN,
      IF "count" \in gcols THEN r.count ELSE NaN>>

\* groupby leaves out the rows with a missing value in a group column.
HasKey(r, gcols) ==
    /\ "brand" \in gcols => ~isnaText(r.brand)
    /\ "product_name" \in gcols => ~isnaText(r.product_name)
    /\ "volume" \in gcols => ~isna(r.volume)
    /\ "count" \in gcols => ~isna(r.count)

\* groupby sorts the groups by key, column after column.
KeyLess(a, b) ==
    \/ TextRank(a[1]) < TextRank(b[1])
    \/ a[1] = b[1] /\ TextRank(a[2]) < TextRank(b[2])
    \/ a[1] = b[1] /\ a[2] = b[2] /\ a[3] < b[3]
    \/ a[1] = b[1] /\ a[2] = b[2] /\ a[3] = b[3] /\ a[4] < b[4]

RECURSIVE SortKeys(_)
SortKeys(S) ==
    IF S = {} THEN <<>>
    ELSE LET k == CHOOSE x \in S : \A y \in S \ {x} : KeyLess(x, y)
         IN <<k>> \o SortKeys(S \ {k})

\* Series.min(): the least value that is not missing, NaN when all are missing.
NanMin(S) == IF S \ {NaN} = {} THEN NaN ELSE Min(S \ {NaN})

\* Series.max(): the greatest value that is not missing, NaN when all are missing.
NanMax(S) == IF S \ {NaN} = {} THEN NaN ELSE Max(S \ {NaN})

\* list(x.unique()): the distinct values in order of first appearance.
RECURSIVE UniqueInOrder(_)
UniqueInOrder(s) ==
    IF s = <<>> THEN <<>>
    ELSE LET front == UniqueInOrder(SubSeq(s, 1, Len(s) - 1))
             last == s[Len(s)]
         IN IF last \in Range(front) THEN front ELSE Append(front, last)

\* Mutant: the prices of a group are aggregated with max.
MakeGroupMaxPrice(t, gcols, key) ==
    LET src == {i \in 1..Len(t.rows) :
                  HasKey(t.rows[i], gcols) /\ GroupKey(t.rows[i], gcols) = key}
        InGroup(r) == HasKey(r, gcols) /\ GroupKey(r, gcols) = key
        members == SelectSeq(t.rows, InGroup)
    IN [brand        |-> key[1],
        product_name |-> key[2],
        volume       |-> key[3],
        count        |-> key[4],
        lowest_price |-> IF "lowest_price" \in t.columns
                         THEN NanMax({t.rows[i].lowest_price : i \in src}) ELSE NaN,
        unit_price   |-> IF "unit_price" \in t.columns
                         THEN NanMax({t.rows[i].unit_price : i \in src}) ELSE NaN,
        platforms    |-> IF "platform" \in t.columns
                         THEN UniqueInOrder([i \in 1..Len(members) |-> members[i].platform])
                         ELSE <<>>,
        size         |-> Cardinality(src),
        src          |-> src]

\* One group of df.groupby(gcols): src holds the positions of its rows.
MakeGroup(t, gcols, key) ==
    LET src == {i \in 1..Len(t.rows) :
                  HasKey(t.rows[i], gcols) /\ GroupKey(t.rows[i], gcols) = key}
        InGroup(r) == HasKey(r, gcols) /\ GroupKey(r, gcols) = key
        members == SelectSeq(t.rows, InGroup)
    IN [brand        |-> key[1],
        product_name |-> key[2],
        volume       |-> key[3],
        count        |-> key[4],
        lowest_price |-> IF "lowest_price" \in t.columns
                         THEN NanMin({t.rows[i].lowest_price : i \in src}) ELSE NaN,
        unit_price   |-> IF "unit_price" \in t.columns
                         THEN NanMin({t.rows[i].unit_price : i \in src}) ELSE NaN,
        platforms    |-> IF "platform" \in t.columns
                         THEN UniqueInOrder([i \in 1..Len(members) |-> members[i].platform])
                         ELSE <<>>,
        size         |-> Cardinality(src),
        src          |-> src]

GroupBy(t, gcols) ==
    LET keys == SortKeys({GroupKey(t.rows[i], gcols) :
                            i \in {j \in 1..Len(t.rows) : HasKey(t.rows[j], gcols)}})
    IN [i \in 1..Len(keys) |-> MakeGroup(t, gcols, keys[i])]

\* With fewer than 2 key columns the method groups by brand alone, which
\* fails with KeyError when there is no brand column.
CalculateUniqueProductsRaises(t) ==
    Cardinality(AvailableCols(t)) < 2 /\ "brand" \notin t.columns

CalculateUniqueProductsWarns(t) == Cardinality(AvailableCols(t)) < 2

\* The unique products of a table, one per group key, in key order.
CalculateUniqueProducts(t) ==
    IF Cardinality(AvailableCols(t)) < 2
    THEN [columns |-> {"brand", "size"},
          rows    |-> GroupBy([t EXCEPT !.columns = {"brand"}], {"brand"})]
    ELSE [columns |-> AvailableCols(t) \cup
                      IF t.columns \cap {"lowest_price", "unit_price", "platform"} = {}
                      THEN {"size"}
                      ELSE t.columns \cap {"lowest_price", "unit_price", "platform"},
          rows    |-> GroupBy(t, AvailableCols(t))]

IsOurs(r) == r.brand = OUR_BRAND

IsCompetitor(r) == r.brand # OUR_BRAND

-----------------------------------------------------------------------------
(* Category Analyzer: counts *)

\* df['brand'] fails with KeyError on a table without that column.
CalculateBasicStatisticsRaises(t) == "brand" \notin t.columns

\* Mutant: the unique products of the competitors are not filtered by brand.
CalculateBasicStatisticsUnfiltered(t) ==
    LET unique_products == CalculateUniqueProducts(t).rows
    IN [total_products_analyzed          |-> Len(t.rows),
        total_unique_products            |-> Len(unique_products),
        our_products_count               |-> Len(Select(t.rows, IsOurs)),
        our_unique_products_count        |-> Len(Select(unique_products, IsOurs)),
        competitor_products_count        |-> Len(Select(t.rows, IsCompetitor)),
        competitor_unique_products_count |-> Len(unique_products)]

CalculateBasicStatistics(t) ==
    LET unique_products == CalculateUniqueProducts(t).rows
    IN [total_products_analyzed          |-> Len(t.rows),
        total_unique_products            |-> Len(unique_products),
        our_products_count               |-> Len(Select(t.rows, IsOurs)),
        our_unique_products_count        |-> Len(Select(unique_products, IsOurs)),
        competitor_products_count        |-> Len(Select(t.rows, IsCompetitor)),
        competitor_unique_products_count |-> Len(Select(unique_products, IsCompetitor))]

-----------------------------------------------------------------------------
(* Number formatting *)

\* The integer nearest to num/den (den > 0), ties to the even one: what
\* format(x, ',.0f') and round(x, 1) print of an exactly representable tie.
RoundHalfEven(num, den) ==
    LET a == IF num < 0 THEN -num ELSE num
        q == a \div den
        r == a % den
        m == IF 2 * r < den THEN q
             ELSE IF 2 * r > den THEN q + 1
             ELSE IF q % 2 = 0 THEN q ELSE q + 1
    IN IF num < 0 THEN -m ELSE m

-----------------------------------------------------------------------------
(* Competitor Matcher *)

\* A cell that holds text where a number is expected (a table that was not
\* coerced by the normalizer): not missing, equal to no number, and any
\* arithmetic on it raises TypeError.
BadCell == -2

\* AppConfig.ANALYSIS_SETTINGS['volume_similarity_range'], in percent.
volume_similarity_range == 20

\* AppConfig.ANALYSIS_SETTINGS['main_competitors_count']
main_competitors_count == 3

\* AppConfig.BUSINESS_INSIGHTS['performance_metrics']['high_engagement_multiplier'],
\* in tenths
high_engagement_multiplier == 20

\* AppConfig.BUSINESS_INSIGHTS['performance_metrics']['good_engagement_multiplier'],
\* in tenths
good_engagement_multiplier == 10

\* The settings of AppConfig as the source has them.
DefaultConfig ==
    /\ analysis_settings = [main_competitors_count |-> main_competitors_count]
    /\ business_insights_config =
          [high_engagement_multiplier |-> high_engagement_multiplier,
           good_engagement_multiplier |-> good_engagement_multiplier]

\* competitors.head(5) in _get_competitor_details
DetailHead == 5

TierExact == "identical volume+count"
TierSimilar == "similar volume+identical count"
TierSameCount == "identical count"
TierMarket == "entire market"

LowestPrice == "lowest price"
BelowAverage == "below average"
AboveAverage == "above average"
HighestPrice == "highest price"

\* The detail of a cohort member without a price carries no number.
NoPriceInfo == NaN

Head_(s, n) == SubSeq(s, 1, IF Len(s) < n THEN Len(s) ELSE n)

\* Mutant: the similar-volume cohort is tried before the exact one.
FindBestCompetitorsSimilarFirst(our_volume, our_count, competitor_platform_data) ==
    LET Exact(c) == c.volume = our_volume /\ c.count = our_count
        Similar(c) == /\ ~isna(c.volume)
                      /\ c.volume * 100 >= our_volume * (100 - volume_similarity_range)
                      /\ c.volume * 100 <= our_volume * (100 + volume_similarity_range)
                      /\ c.count = our_count
        SameCount(c) == c.count = our_count
        exact_competitors == Select(competitor_platform_data, Exact)
        similar_volume_competitors == Select(competitor_platform_data, Similar)
        same_count_competitors == Select(competitor_platform_data, SameCount)
        none == [tier |-> "", range_min |-> 0, range_max |-> 0]
    IN IF similar_volume_competitors # <<>>
       THEN [selected |-> similar_volume_competitors,
             comparison_type |->
                [tier |-> TierSimilar,
                 range_min |-> RoundHalfEven(our_volume * (100 - volume_similarity_range), 100),
                 range_max |-> RoundHalfEven(our_volume * (100 + volume_similarity_range), 100)]]
       ELSE IF exact_competitors # <<>>
       THEN [selected |-> exact_competitors,
             comparison_type |-> [none EXCEPT !.tier = TierExact]]
       ELSE IF same_count_competitors # <<>>
       THEN [selected |-> same_count_competitors,
             comparison_type |-> [none EXCEPT !.tier = TierSameCount]]
       ELSE IF competitor_platform_data # <<>>
       THEN [selected |-> competitor_platform_data,
             comparison_type |-> [none EXCEPT !.tier = TierMarket]]
       ELSE [selected |-> <<>>, comparison_type |-> none]

\* Mutant: the bounds of the similar-volume tier are exclusive.
FindBestCompetitorsExclusive(our_volume, our_count, competitor_platform_data) ==
    LET Exact(c) == c.volume = our_volume /\ c.count = our_count
        Similar(c) == /\ ~isna(c.volume)
                      /\ c.volume * 100 > our_volume * (100 - volume_similarity_range)
                      /\ c.volume * 100 < our_volume * (100 + volume_similarity_range)
                      /\ c.count = our_count
        SameCount(c) == c.count = our_count
        exact_competitors == Select(competitor_platform_data, Exact)
        similar_volume_competitors == Select(competitor_platform_data, Similar)
        same_count_competitors == Select(competitor_platform_data, SameCount)
        none == [tier |-> "", range_min |-> 0, range_max |-> 0]
    IN IF exact_competitors # <<>>
       THEN [selected |-> exact_competitors,
             comparison_type |-> [none EXCEPT !.tier = TierExact]]
       ELSE IF similar_volume_competitors # <<>>
       THEN [selected |-> similar_volume_competitors,
             comparison_type |->
                [tier |-> TierSimilar,
                 range_min |-> RoundHalfEven(our_volume * (100 - volume_similarity_range), 100),
                 range_max |-> RoundHalfEven(our_volume * (100 + volume_similarity_range), 100)]]
       ELSE IF same_count_competitors # <<>>
       THEN [selected |-> same_count_competitors,
             comparison_type |-> [none EXCEPT !.tier = TierSameCount]]
       ELSE IF competitor_platform_data # <<>>
       THEN [selected |-> competitor_platform_data,
             comparison_type |-> [none EXCEPT !.tier = TierMarket]]
       ELSE [selected |-> <<>>, comparison_type |-> none]

\* _find_best_competitors: the first cohort that is not empty, with its label.
\* The bounds of the similar-volume tier are our_volume -/+ our_volume * 0.2.
FindBestCompetitors(our_volume, our_count, competitor_platform_data) ==
    LET Exact(c) == c.volume = our_volume /\ c.count = our_count
        Similar(c) == /\ ~isna(c.volume)
                      /\ c.volume * 100 >= our_volume * (100 - volume_similarity_range)
                      /\ c.volume * 100 <= our_volume * (100 + volume_similarity_range)
                      /\ c.count = our_count
        SameCount(c) == c.count = our_count
        exact_competitors == Select(competitor_platform_data, Exact)
        similar_volume_competitors == Select(competitor_platform_data, Similar)
        same_count_competitors == Select(competitor_platform_data, SameCount)
        none == [tier |-> "", range_min |-> 0, range_max |-> 0]
    IN IF exact_competitors # <<>>
       THEN [selected |-> exact_competitors,
             comparison_type |-> [none EXCEPT !.tier = TierExact]]
       ELSE IF similar_volume_competitors # <<>>
       THEN [selected |-> similar_volume_competitors,
             comparison_type |->
                [tier |-> TierSimilar,
                 range_min |-> RoundHalfEven(our_volume * (100 - volume_similarity_range), 100),
                 range_max |-> RoundHalfEven(our_volume * (100 + volume_similarity_range), 100)]]
       ELSE IF same_count_competitors # <<>>
       THEN [selected |-> same_count_competitors,
             comparison_type |-> [none EXCEPT !.tier = TierSameCount]]
       ELSE IF competitor_platform_data # <<>>
       THEN [selected |-> competitor_platform_data,
             comparison_type |-> [none EXCEPT !.tier = TierMarket]]
       ELSE [selected |-> <<>>, comparison_type |-> none]

\* Mutant: a price equal to the cohort minimum is not the lowest price.
DetermineMarketPositionStrict(our_price, competitor_min, avg_sum, avg_n, competitor_max) ==
    IF our_price < competitor_min THEN LowestPrice
    ELSE IF our_price * avg_n <= avg_sum THEN BelowAverage
    ELSE IF our_price <= competitor_max THEN AboveAverage
    ELSE HighestPrice

\* Mutant: the second rule compares our price with the cohort maximum.
DetermineMarketPositionAgainstMax(our_price, competitor_min, avg_sum, avg_n, competitor_max) ==
    IF our_price <= competitor_min THEN LowestPrice
    ELSE IF our_price <= competitor_max THEN BelowAverage
    ELSE IF our_price * avg_n <= avg_sum THEN AboveAverage
    ELSE HighestPrice

\* _determine_market_position; the mean is avg_sum / avg_n.
DetermineMarketPosition(our_price, competitor_min, avg_sum, avg_n, competitor_max) ==
    IF our_price <= competitor_min THEN LowestPrice
    ELSE IF our_price * avg_n <= avg_sum THEN BelowAverage
    ELSE IF our_price <= competitor_max THEN AboveAverage
    ELSE HighestPrice

\* _get_competitor_details: one line per member of the head of the cohort.
GetCompetitorDetails(competitors) ==
    LET head == Head_(competitors, DetailHead)
    IN [i \in 1..Len(head) |->
          [brand  |-> head[i].brand,
           volume |-> head[i].volume,
           count  |-> head[i].count,
           price  |-> IF isna(head[i].unit_price) THEN NoPriceInfo
                      ELSE head[i].unit_price]]

NotNaPrice(c) == ~isna(c.unit_price)

\* _perform_competitiveness_analysis returns None when the cohort has no price.
PerformCompetitivenessAnalysisIsNone(competitors) ==
    Select(competitors, NotNaPrice) = <<>>

\* Mutant: the price gap is taken from the cohort minimum, not from the mean.
PerformCompetitivenessAnalysisGapFromMin(our_product, our_unit_price, competitors, comparison_type) ==
    LET priced == Select(competitors, NotNaPrice)
        prices == [i \in 1..Len(priced) |-> priced[i].unit_price]
        avg_sum == SumSeq(prices)
        avg_n == Len(prices)
        competitor_min == Min(Range(prices))
        competitor_max == Max(Range(prices))
    IN [product            |-> <<our_product.product_name, our_product.volume,
                                 our_product.count>>,
        our_unit_price     |-> our_unit_price,
        competitor_avg     |-> RoundHalfEven(avg_sum, avg_n),
        competitor_min     |-> competitor_min,
        competitor_max     |-> competitor_max,
        price_gap          |-> our_unit_price - competitor_min,
        price_gap_percent  |-> IF competitor_min > 0
                               THEN RoundHalfEven((our_unit_price - competitor_min) * 1000,
                                                  competitor_min)
                               ELSE 0,
        market_position    |-> DetermineMarketPosition(our_unit_price, competitor_min,
                                                       avg_sum, avg_n, competitor_max),
        competitor_count   |-> Len(competitors),
        comparison_type    |-> comparison_type,
        main_competitors   |-> Head_(GetCompetitorDetails(competitors),
                                     analysis_settings.main_competitors_count),
        avg_sum            |-> avg_sum,
        avg_n              |-> avg_n]

\* _perform_competitiveness_analysis: the entry of one of our rows.
PerformCompetitivenessAnalysis(our_product, our_unit_price, competitors, comparison_type) ==
    LET priced == Select(competitors, NotNaPrice)
        prices == [i \in 1..Len(priced) |-> priced[i].unit_price]
        avg_sum == SumSeq(prices)
        avg_n == Len(prices)
        competitor_min == Min(Range(prices))
        competitor_max == Max(Range(prices))
    IN [product            |-> <<our_product.product_name, our_product.volume,
                                 our_product.count>>,
        our_unit_price     |-> our_unit_price,
        competitor_avg     |-> RoundHalfEven(avg_sum, avg_n),
        competitor_min     |-> competitor_min,
        competitor_max     |-> competitor_max,
        price_gap          |-> RoundHalfEven(our_unit_price * avg_n - avg_sum, avg_n),
        price_gap_percent  |-> IF avg_sum > 0
                               THEN RoundHalfEven((our_unit_price * avg_n - avg_sum) * 1000,
                                                  avg_sum)
                               ELSE 0,
        market_position    |-> DetermineMarketPosition(our_unit_price, competitor_min,
                                                       avg_sum, avg_n, competitor_max),
        competitor_count   |-> Len(competitors),
        comparison_type    |-> comparison_type,
        main_competitors   |-> Head_(GetCompetitorDetails(competitors),
                                     analysis_settings.main_competitors_count),
        avg_sum            |-> avg_sum,
        avg_n              |-> avg_n]

\* Whether the body of _analyze_single_product_competitiveness raises (which
\* its except clause turns into None): a text volume matches no competitor
\* exactly, and our_volume * 0.2 then raises TypeError.
SingleProductRaises(our_product, competitor_platform_data) ==
    /\ ~isna(our_product.volume)
    /\ ~isna(our_product.count)
    /\ ~isna(our_product.unit_price)
    /\ our_product.volume = BadCell
    /\ LET Exact(c) == c.volume = our_product.volume /\ c.count = our_product.count
       IN Select(competitor_platform_data, Exact) = <<>>

\* Mutant: a row of ours without a unit price is not skipped.
SingleProductIsNoneIgnoringPrice(our_product, competitor_platform_data) ==
    \/ isna(our_product.volume)
    \/ isna(our_product.count)
    \/ SingleProductRaises(our_product, competitor_platform_data)
    \/ LET best == FindBestCompetitors(our_product.volume, our_product.count,
                                       competitor_platform_data)
       IN \/ best.selected = <<>>
          \/ PerformCompetitivenessAnalysisIsNone(best.selected)

\* Whether _analyze_single_product_competitiveness returns None.
SingleProductIsNone(our_product, competitor_platform_data) ==
    \/ isna(our_product.volume)
    \/ isna(our_product.count)
    \/ isna(our_product.unit_price)
    \/ SingleProductRaises(our_product, competitor_platform_data)
    \/ LET best == FindBestCompetitors(our_product.volume, our_product.count,
                                       competitor_platform_data)
       IN \/ best.selected = <<>>
          \/ PerformCompetitivenessAnalysisIsNone(best.selected)

\* _analyze_single_product_competitiveness when it returns an entry.
AnalyzeSingleProductCompetitiveness(our_product, competitor_platform_data) ==
    LET best == FindBestCompetitors(our_product.volume, our_product.count,
                                    competitor_platform_data)
    IN PerformCompetitivenessAnalysis(our_product, our_product.unit_price,
                                      best.selected, best.comparison_type)

\* _analyze_platform_competitiveness: the entries of our rows on the platform,
\* in row order; <<>> stands for None (no entry at all).
RECURSIVE PlatformEntries(_, _)
PlatformEntries(our_platform_data, competitor_platform_data) ==
    IF our_platform_data = <<>> THEN <<>>
    ELSE LET our_product == Head(our_platform_data)
             rest == PlatformEntries(Tail(our_platform_data), competitor_platform_data)
         IN IF SingleProductIsNone(our_product, competitor_platform_data)
            THEN rest
            ELSE <<AnalyzeSingleProductCompetitiveness(our_product,
                                                       competitor_platform_data)>> \o rest

\* Mutant: a row whose computation raises aborts the analysis of its platform.
AnalyzePlatformCompetitivenessAborting(platform, our_products, competitor_products) ==
    LET OnPlatform(r) == r.platform = platform
        our_platform_data == Select(our_products, OnPlatform)
        competitor_platform_data == Select(competitor_products, OnPlatform)
    IN IF our_platform_data = <<>> \/ competitor_platform_data = <<>>
       THEN <<>>
       ELSE IF \E i \in 1..Len(our_platform_data) :
                  SingleProductRaises(our_platform_data[i], competitor_platform_data)
       THEN <<>>
       ELSE PlatformEntries(our_platform_data, competitor_platform_data)

AnalyzePlatformCompetitiveness(platform, our_products, competitor_products) ==
    LET OnPlatform(r) == r.platform = platform
        our_platform_data == Select(our_products, OnPlatform)
        competitor_platform_data == Select(competitor_products, OnPlatform)
    IN IF our_platform_data = <<>> \/ competitor_platform_data = <<>>
       THEN <<>>
       ELSE PlatformEntries(our_platform_data, competitor_platform_data)

\* Mutant: a platform without entries is kept in the map with an empty list.
RECURSIVE CompetitivenessItemsKeepingEmpty(_, _, _)
CompetitivenessItemsKeepingEmpty(platforms, our_products, competitor_products) ==
    IF platforms = <<>> THEN <<>>
    ELSE LET platform == Head(platforms)
             rest == CompetitivenessItemsKeepingEmpty(Tail(platforms), our_products,
                                                      competitor_products)
             platform_analysis ==
                 AnalyzePlatformCompetitiveness(platform, our_products,
                                                competitor_products)
         IN IF isnaText(platform)
            THEN rest
            ELSE <<[platform |-> platform, entries |-> platform_analysis]>> \o rest

\* _detailed_competitiveness_analysis: a dict platform -> entries, kept as the
\* sequence of its items in insertion order (df['platform'].unique()).
RECURSIVE CompetitivenessItems(_, _, _)
CompetitivenessItems(platforms, our_products, competitor_products) ==
    IF platforms = <<>> THEN <<>>
    ELSE LET platform == Head(platforms)
             rest == CompetitivenessItems(Tail(platforms), our_products,
                                          competitor_products)
             platform_analysis ==
                 AnalyzePlatformCompetitiveness(platform, our_products,
                                                competitor_products)
         IN IF isnaText(platform) \/ platform_analysis = <<>>
            THEN rest
            ELSE <<[platform |-> platform, entries |-> platform_analysis]>> \o rest

\* df['brand'] fails with KeyError on a table without that column.
DetailedCompetitivenessAnalysisRaises(t) ==
    /\ {"unit_price", "platform", "volume", "count"} \subseteq t.columns
    /\ "brand" \notin t.columns

DetailedCompetitivenessAnalysis(t) ==
    IF ~({"unit_price", "platform", "volume", "count"} \subseteq t.columns)
    THEN <<>>
    ELSE CompetitivenessItems(
             UniqueInOrder([i \in 1..Len(t.rows) |-> t.rows[i].platform]),
             Select(t.rows, IsOurs), Select(t.rows, IsCompetitor))

-----------------------------------------------------------------------------
(* Performance Scorer: _analyze_our_products.  Ratings are kept in tenths. *)

\* BUSINESS_INSIGHTS['performance_metrics']['excellent_rating'], in tenths
excellent_rating == 45

\* BUSINESS_INSIGHTS['performance_metrics']['good_rating'], in tenths
good_rating == 40

\* The ratio thresholds written in _calculate_market_reaction (2.0 and 1.0).
reaction_high_ratio == 2

reaction_good_ratio == 1

NoData == "no data"

\* The first element with the greatest value comes first, and so on: a stable
\* sort in descending order (list.sort(reverse=True), sort_values(ascending=False)).
RECURSIVE DescOrder(_, _)
DescOrder(vals, left) ==
    IF left = {} THEN <<>>
    ELSE LET i == CHOOSE j \in left :
                    /\ \A k \in left : vals[k] <= vals[j]
                    /\ \A k \in left : k < j => vals[k] < vals[j]
         IN <<i>> \o DescOrder(vals, left \ {i})

SortDescBy(s, Val(_)) ==
    LET order == DescOrder([i \in 1..Len(s) |-> Val(s[i])], 1..Len(s))
    IN [i \in 1..Len(s) |-> s[order[i]]]

\* _find_review_rating_columns: both the review and the rating column exist.
HasReviewRating(t) == "reviews" \in t.columns /\ "rating" \in t.columns

\* _calculate_market_averages: the mean review count as the fraction sum/n
\* over the competitor rows with a positive review count; n = 0 stands for 0.
CalculateMarketAverages(competitor_products) ==
    LET Reviewed(r) == ~isna(r.reviews) /\ r.reviews > 0
        Rated(r) == ~isna(r.rating) /\ r.rating > 0
        market_reviews == Select(competitor_products.rows, Reviewed)
        market_ratings == Select(competitor_products.rows, Rated)
    IN IF HasReviewRating(competitor_products)
       THEN [reviews_sum |-> SumSeq([i \in 1..Len(market_reviews) |-> market_reviews[i].reviews]),
             reviews_n   |-> Len(market_reviews),
             rating_sum  |-> SumSeq([i \in 1..Len(market_ratings) |-> market_ratings[i].rating]),
             rating_n    |-> Len(market_ratings)]
       ELSE [reviews_sum |-> 0, reviews_n |-> 0, rating_sum |-> 0, rating_n |-> 0]

ProductKey(product) == <<product.product_name, product.volume, product.count>>

PerformanceScore(p) == p.performance_score

\* Mutant: the performance list is left in the order of the unique products.
CalculatePerformanceRankingsUnsorted(our_products, unique_our_products) ==
    IF ~HasReviewRating(our_products) THEN <<>>
    ELSE [i \in 1..Len(unique_our_products) |->
            LET product == unique_our_products[i]
                Matching(r) == /\ r.brand = product.brand
                               /\ r.product_name = product.product_name
                               /\ r.volume = product.volume
                               /\ r.count = product.count
                matching_products == Select(our_products.rows, Matching)
                max_reviews == NanMax({matching_products[j].reviews :
                                         j \in 1..Len(matching_products)})
                max_rating == NanMax({matching_products[j].rating :
                                        j \in 1..Len(matching_products)})
                product_reviews == IF isna(max_reviews) THEN 0 ELSE max_reviews
                product_rating == IF isna(max_rating) THEN 0 ELSE max_rating
            IN [product_key       |-> ProductKey(product),
                reviews           |-> product_reviews,
                rating            |-> product_rating,
                performance_score |-> IF product_rating > 0
                                      THEN product_reviews * product_rating ELSE 0]]

\* Mutant: the review count and the rating are those of the first matching row.
CalculatePerformanceRankingsFirstRow(our_products, unique_our_products) ==
    IF ~HasReviewRating(our_products) THEN <<>>
    ELSE LET Perf(product) ==
                 LET Matching(r) == /\ r.brand = product.brand
                                    /\ r.product_name = product.product_name
                                    /\ r.volume = product.volume
                                    /\ r.count = product.count
                     matching_products == Select(our_products.rows, Matching)
                     first_reviews == matching_products[1].reviews
                     first_rating == matching_products[1].rating
                     product_reviews == IF isna(first_reviews) THEN 0 ELSE first_reviews
                     product_rating == IF isna(first_rating) THEN 0 ELSE first_rating
                 IN [product_key       |-> ProductKey(product),
                     reviews           |-> product_reviews,
                     rating            |-> product_rating,
                     performance_score |-> IF product_rating > 0
                                           THEN product_reviews * product_rating ELSE 0]
             performance_list == [i \in 1..Len(unique_our_products) |->
                                    Perf(unique_our_products[i])]
         IN SortDescBy(performance_list, PerformanceScore)

\* _calculate_performance_rankings
CalculatePerformanceRankings(our_products, unique_our_products) ==
    IF ~HasReviewRating(our_products) THEN <<>>
    ELSE LET Perf(product) ==
                 LET Matching(r) == /\ r.brand = product.brand
                                    /\ r.product_name = product.product_name
                                    /\ r.volume = product.volume
                                    /\ r.count = product.count
                     matching_products == Select(our_products.rows, Matching)
                     max_reviews == NanMax({matching_products[i].reviews :
                                              i \in 1..Len(matching_products)})
                     max_rating == NanMax({matching_products[i].rating :
                                             i \in 1..Len(matching_products)})
                     product_reviews == IF isna(max_reviews) THEN 0 ELSE max_reviews
                     product_rating == IF isna(max_rating) THEN 0 ELSE max_rating
                 IN [product_key       |-> ProductKey(product),
                     reviews           |-> product_reviews,
                     rating            |-> product_rating,
                     performance_score |-> IF product_rating > 0
                                           THEN product_reviews * product_rating ELSE 0]
             performance_list == [i \in 1..Len(unique_our_products) |->
                                    Perf(unique_our_products[i])]
         IN SortDescBy(performance_list, PerformanceScore)

\* Mutant: the two ratio thresholds are exclusive.
CalculateMarketReactionStrict(reviews, avg_sum, avg_n) ==
    IF avg_n > 0 /\ avg_sum > 0 /\ reviews > 0
    THEN [class   |-> IF reviews * avg_n > reaction_high_ratio * avg_sum THEN "high"
                      ELSE IF reviews * avg_n > reaction_good_ratio * avg_sum
                      THEN "above average"
                      ELSE "normal",
          reviews |-> reviews,
          ratio   |-> RoundHalfEven(reviews * avg_n * 10, avg_sum)]
    ELSE [class   |-> IF reviews > 0 THEN "count only" ELSE "no reviews",
          reviews |-> reviews,
          ratio   |-> 0]

\* _calculate_market_reaction
CalculateMarketReaction(reviews, avg_sum, avg_n) ==
    IF avg_n > 0 /\ avg_sum > 0 /\ reviews > 0
    THEN [class   |-> IF reviews * avg_n >= reaction_high_ratio * avg_sum THEN "high"
                      ELSE IF reviews * avg_n >= reaction_good_ratio * avg_sum
                      THEN "above average"
                      ELSE "normal",
          reviews |-> reviews,
          ratio   |-> RoundHalfEven(reviews * avg_n * 10, avg_sum)]
    ELSE [class   |-> IF reviews > 0 THEN "count only" ELSE "no reviews",
          reviews |-> reviews,
          ratio   |-> 0]

\* Mutant: the two rating thresholds are exclusive.
CalculateCustomerSatisfactionStrict(rating) ==
    IF rating > 0
    THEN [class  |-> IF rating > excellent_rating THEN "excellent"
                     ELSE IF rating > good_rating THEN "good"
                     ELSE "needs improvement",
          rating |-> rating]
    ELSE [class |-> "no rating", rating |-> 0]

\* _calculate_customer_satisfaction
CalculateCustomerSatisfaction(rating) ==
    IF rating > 0
    THEN [class  |-> IF rating >= excellent_rating THEN "excellent"
                     ELSE IF rating >= good_rating THEN "good"
                     ELSE "needs improvement",
          rating |-> rating]
    ELSE [class |-> "no rating", rating |-> 0]

\* _calculate_brand_ranking
CalculateBrandRanking(product_key, performance_rankings) ==
    LET found == {i \in 1..Len(performance_rankings) :
                    performance_rankings[i].product_key = product_key}
    IN IF found # {} /\ Len(performance_rankings) > 1
       THEN [class |-> "rank", rank |-> Min(found), of |-> Len(performance_rankings)]
       ELSE [class |-> "single product", rank |-> 0, of |-> 0]

\* _create_product_info with _add_price_info and _add_performance_info
CreateProductInfo(product, market_averages, performance_rankings) ==
    LET found == {i \in 1..Len(performance_rankings) :
                    performance_rankings[i].product_key = ProductKey(product)}
        perf == performance_rankings[Min(found)]
    IN [brand        |-> product.brand,
        product_name |-> product.product_name,
        volume       |-> product.volume,
        count        |-> product.count,
        lowest_price |-> product.lowest_price,
        unit_price   |-> product.unit_price,
        platforms    |-> product.platforms,
        market_reaction |->
            IF found = {} THEN [class |-> NoData, reviews |-> 0, ratio |-> 0]
            ELSE CalculateMarketReaction(perf.reviews, market_averages.reviews_sum,
                                         market_averages.reviews_n),
        customer_satisfaction |->
            IF found = {} THEN [class |-> NoData, rating |-> 0]
            ELSE CalculateCustomerSatisfaction(perf.rating),
        brand_rank |->
            IF found = {} THEN [class |-> NoData, rank |-> 0, of |-> 0]
            ELSE CalculateBrandRanking(ProductKey(product), performance_rankings)]

OurTable(t) == [t EXCEPT !.rows = Select(t.rows, IsOurs)]

CompetitorTable(t) == [t EXCEPT !.rows = Select(t.rows, IsCompetitor)]

\* product['product_name'], product['volume'] and product['count'] fail with
\* KeyError on a unique product that was grouped without that column
\* (_calculate_performance_rankings, _create_product_info).
AnalyzeOurProductsRaises(t) ==
    /\ OurTable(t).rows # <<>>
    /\ CalculateUniqueProducts(OurTable(t)).rows # <<>>
    /\ ~({"product_name", "volume", "count"} \subseteq t.columns)

\* _analyze_our_products
AnalyzeOurProducts(t) ==
    LET our_products == OurTable(t)
        unique_our_products == CalculateUniqueProducts(our_products).rows
        market_averages == CalculateMarketAverages(CompetitorTable(t))
        performance_rankings ==
            CalculatePerformanceRankings(our_products, unique_our_products)
    IN IF our_products.rows = <<>> \/ unique_our_products = <<>> THEN <<>>
       ELSE [i \in 1..Len(unique_our_products) |->
               CreateProductInfo(unique_our_products[i], market_averages,
                                 performance_rankings)]

-----------------------------------------------------------------------------
(* Volume / pack-count breakdown and brand market share *)

\* AppConfig.ANALYSIS_SETTINGS['top_volume_combinations']
top_volume_combinations == 10

\* AppConfig.ANALYSIS_SETTINGS['top_brands_count']
top_brands_count == 10

GroupSize(g) == g.size

\* _analyze_volume_market: inside its try block df['brand'] fails with
\* KeyError when there is no brand column; the method then warns and
\* returns the empty list.
AnalyzeVolumeMarketFails(t) ==
    LET Sized(r) == ~isna(r.volume) /\ ~isna(r.count)
    IN /\ {"volume", "count"} \subseteq t.columns
       /\ Select(t.rows, Sized) # <<>>
       /\ "brand" \notin t.columns

\* _analyze_volume_market with _add_combo_price_info
AnalyzeVolumeMarket(t) ==
    LET Sized(r) == ~isna(r.volume) /\ ~isna(r.count)
        df_for_volume == [t EXCEPT !.rows = Select(t.rows, Sized)]
        combos == Head_(SortDescBy(GroupBy(df_for_volume, {"volume", "count"}), GroupSize),
                        top_volume_combinations)
        Info(combo) ==
            LET InCombo(r) == r.volume = combo.volume /\ r.count = combo.count
                OursInCombo(r) == IsOurs(r) /\ InCombo(r)
                priced == Select(Select(df_for_volume.rows, InCombo), NotNaPrice)
                prices == [i \in 1..Len(priced) |-> priced[i].unit_price]
                has_price == "unit_price" \in t.columns /\ priced # <<>>
            IN [volume         |-> combo.volume,
                count          |-> combo.count,
                total_products |-> combo.size,
                our_products   |-> Len(Select(t.rows, OursInCombo)),
                avg_unit_price |-> IF has_price
                                   THEN RoundHalfEven(SumSeq(prices), Len(prices)) ELSE NaN,
                min_unit_price |-> IF has_price THEN Min(Range(prices)) ELSE NaN,
                max_unit_price |-> IF has_price THEN Max(Range(prices)) ELSE NaN]
    IN IF ~({"volume", "count"} \subseteq t.columns) \/ df_for_volume.rows = <<>>
          \/ AnalyzeVolumeMarketFails(t)
       THEN <<>>
       ELSE [i \in 1..Len(combos) |-> Info(combos[i])]

\* Mutant: the share is cut to one decimal, not rounded.
SharePercentTruncated(count, total) == (count * 1000) \div total

\* round((count / total) * 100, 1), in tenths of a percent.
SharePercent(count, total) == RoundHalfEven(count * 1000, total)

\* Series.value_counts(): the values that are not missing with the number of
\* their occurrences, most frequent first.
ValueCounts(values) ==
    LET present == SelectSeq(values, LAMBDA v : ~isnaText(v))
        distinct == UniqueInOrder(present)
        counted == [i \in 1..Len(distinct) |->
                      [value |-> distinct[i],
                       size  |-> Cardinality({j \in 1..Len(present) :
                                                present[j] = distinct[i]})]]
    IN SortDescBy(counted, GroupSize)

\* _analyze_market_share: inside its try block _calculate_unique_products or
\* unique_products['brand'] fails with KeyError when there is no brand
\* column; the method then warns and returns the empty dict.
AnalyzeMarketShareFails(t) == "brand" \notin t.columns

\* _analyze_market_share: a dict brand -> {count, percent}, kept as the
\* sequence of its items in insertion order.
AnalyzeMarketShare(t) ==
    LET unique_products == CalculateUniqueProducts(t).rows
        brand_share == ValueCounts([i \in 1..Len(unique_products) |->
                                      unique_products[i].brand])
        total_unique_products == Len(unique_products)
        top == Head_(brand_share, top_brands_count)
    IN IF AnalyzeMarketShareFails(t) THEN <<>>
       ELSE [i \in 1..Len(top) |->
               [brand         |-> top[i].value,
                product_count |-> top[i].size,
                share_percent |-> SharePercent(top[i].size, total_unique_products)]]

-----------------------------------------------------------------------------
(* Category Analyzer *)

NoInsights ==
    [our_product_details      |-> <<>>,
     detailed_competitiveness |-> <<>>,
     volume_count_market      |-> <<>>,
     market_share             |-> <<>>,
     present                  |-> FALSE]

\* _analyze_business_insights
AnalyzeBusinessInsights(t) ==
    [our_product_details      |-> AnalyzeOurProducts(t),
     detailed_competitiveness |-> DetailedCompetitivenessAnalysis(t),
     volume_count_market      |-> AnalyzeVolumeMarket(t),
     market_share             |-> AnalyzeMarketShare(t),
     present                  |-> TRUE]

\* _create_empty_analysis_result
CreateEmptyAnalysisResult(category_name) ==
    [category_name                    |-> category_name,
     total_products_analyzed          |-> 0,
     total_unique_products            |-> 0,
     our_products_count               |-> 0,
     our_unique_products_count        |-> 0,
     competitor_products_count        |-> 0,
     competitor_unique_products_count |-> 0,
     business_insights                |-> NoInsights]

\* Whether _analyze_category raises: nothing catches the KeyError of
\* _calculate_basic_statistics and of _analyze_our_products.
AnalyzeCategoryRaises(t) ==
    /\ t.rows # <<>>
    /\ \/ CalculateBasicStatisticsRaises(t)
       \/ AnalyzeOurProductsRaises(t)

\* Mutant: _analyze_category without its test for an empty table.
AnalyzeCategoryWithoutEmptyTest(t, category_name) ==
    LET basic_stats == CalculateBasicStatistics(t)
    IN [category_name                    |-> category_name,
        total_products_analyzed          |-> basic_stats.total_products_analyzed,
        total_unique_products            |-> basic_stats.total_unique_products,
        our_products_count               |-> basic_stats.our_products_count,
        our_unique_products_count        |-> basic_stats.our_unique_products_count,
        competitor_products_count        |-> basic_stats.competitor_products_count,
        competitor_unique_products_count |->
            basic_stats.competitor_unique_products_count,
        business_insights                |-> AnalyzeBusinessInsights(t)]

\* _analyze_category
AnalyzeCategory(t, category_name) ==
    IF t.rows = <<>> THEN CreateEmptyAnalysisResult(category_name)
    ELSE LET basic_stats == CalculateBasicStatistics(t)
         IN [category_name                    |-> category_name,
             total_products_analyzed          |-> basic_stats.total_products_analyzed,
             total_unique_products            |-> basic_stats.total_unique_products,
             our_products_count               |-> basic_stats.our_products_count,
             our_unique_products_count        |-> basic_stats.our_unique_products_count,
             competitor_products_count        |-> basic_stats.competitor_products_count,
             competitor_unique_products_count |->
                 basic_stats.competitor_unique_products_count,
             business_insights                |-> AnalyzeBusinessInsights(t)]

\* The st.warning signals of _analyze_category.
AnalyzeCategoryWarnings(t) ==
    IF t.rows = <<>> \/ CalculateBasicStatisticsRaises(t) THEN {}
    ELSE (IF CalculateUniqueProductsWarns(t) THEN {"insufficient columns"} ELSE {})
         \cup (IF ~AnalyzeOurProductsRaises(t) /\ AnalyzeVolumeMarketFails(t)
               THEN {"volume market failed"} ELSE {})
         \cup (IF ~AnalyzeOurProductsRaises(t) /\ AnalyzeMarketShareFails(t)
               THEN {"market share failed"} ELSE {})

-----------------------------------------------------------------------------
(* Business Analyzer: analyze_business_critical_data *)

\* Mutant: a row with a missing flag counts as handmade.
SeparateProductTypesKeepingMissing(combined_df) ==
    LET NotFactory(r) == r.factory # 1
    IN IF "factory" \in combined_df.columns
       THEN [handmade_df     |-> [combined_df EXCEPT !.rows = Select(combined_df.rows, NotFactory)],
             all_products_df |-> combined_df,
             warnings        |-> {}]
       ELSE [handmade_df     |-> combined_df,
             all_products_df |-> combined_df,
             warnings        |-> {"factory column missing"}]

\* Mutant: the 'all' table is the rows that are not handmade.
SeparateProductTypesDisjoint(combined_df) ==
    LET Handmade(r) == r.factory = 0
        NotHandmade(r) == r.factory # 0
    IN IF "factory" \in combined_df.columns
       THEN [handmade_df     |-> [combined_df EXCEPT !.rows = Select(combined_df.rows, Handmade)],
             all_products_df |-> [combined_df EXCEPT !.rows = Select(combined_df.rows, NotHandmade)],
             warnings        |-> {}]
       ELSE [handmade_df     |-> combined_df,
             all_products_df |-> combined_df,
             warnings        |-> {"factory column missing"}]

\* _separate_product_types
SeparateProductTypes(combined_df) ==
    LET Handmade(r) == r.factory = 0
    IN IF "factory" \in combined_df.columns
       THEN [handmade_df     |-> [combined_df EXCEPT !.rows = Select(combined_df.rows, Handmade)],
             all_products_df |-> combined_df,
             warnings        |-> {}]
       ELSE [handmade_df     |-> combined_df,
             all_products_df |-> combined_df,
             warnings        |-> {"factory column missing"}]

EmptyReport ==
    [timestamp          |-> 0,
     our_brand          |-> "",
     handmade_category  |-> CreateEmptyAnalysisResult(""),
     all_category       |-> CreateEmptyAnalysisResult(""),
     platforms_analyzed |-> <<>>]

\* analyze_business_critical_data: what one call returns or raises, and the
\* warnings it signals on the way.
AnalyzeBusinessCriticalData(l, clock) ==
    LET combined_df == Concat(l)
        sep == SeparateProductTypes(combined_df)
        none == [returned        |-> "none",
                 results         |-> EmptyReport,
                 handmade_df     |-> EmptyTable,
                 all_products_df |-> EmptyTable,
                 warnings        |-> {}]
    IN IF l = <<>> THEN none
       ELSE IF AnalyzeCategoryRaises(sep.handmade_df)
       THEN [none EXCEPT !.returned = "raised",
                         !.warnings = sep.warnings
                                      \cup AnalyzeCategoryWarnings(sep.handmade_df)]
       ELSE IF AnalyzeCategoryRaises(sep.all_products_df)
       THEN [none EXCEPT !.returned = "raised",
                         !.warnings = sep.warnings
                                      \cup AnalyzeCategoryWarnings(sep.handmade_df)
                                      \cup AnalyzeCategoryWarnings(sep.all_products_df)]
       ELSE [returned        |-> "value",
             results         |->
                [timestamp          |-> clock,
                 our_brand          |-> OUR_BRAND,
                 handmade_category  |-> AnalyzeCategory(sep.handmade_df, "handmade"),
                 all_category       |-> AnalyzeCategory(sep.all_products_df, "all"),
                 platforms_analyzed |->
                     IF "platform" \in combined_df.columns
                     THEN UniqueInOrder([i \in 1..Len(combined_df.rows) |->
                                           combined_df.rows[i].platform])
                     ELSE <<>>],
             handmade_df     |-> sep.handmade_df,
             all_products_df |-> sep.all_products_df,
             warnings        |-> sep.warnings
                                 \cup AnalyzeCategoryWarnings(sep.handmade_df)
                                 \cup AnalyzeCategoryWarnings(sep.all_products_df)]

\* Mutant: the run filters the caller's tables in place, so that the next
\* run starts from the handmade rows only.
AnalyzeInPlace ==
    /\ calls < MaxCalls
    /\ \E call \in {AnalyzeBusinessCriticalData(df_list, now + 1)} :
          /\ returned' = call.returned
          /\ analysis_results' = call.results
          /\ handmade_df' = call.handmade_df
          /\ all_products_df' = call.all_products_df
          /\ warnings' = call.warnings
          /\ df_list' = IF call.returned = "value" THEN <<call.handmade_df>> ELSE df_list
    /\ prev_results' = [returned |-> returned, results |-> analysis_results]
    /\ now' = now + 1
    /\ calls' = calls + 1
    /\ UNCHANGED <<methodVars, storageVars, configVars>>

\* One run of the pipeline on the uploaded tables.
Analyze ==
    /\ calls < MaxCalls
    /\ \E call \in {AnalyzeBusinessCriticalData(df_list, now + 1)} :
          /\ returned' = call.returned
          /\ analysis_results' = call.results
          /\ handmade_df' = call.handmade_df
          /\ all_products_df' = call.all_products_df
          /\ warnings' = call.warnings
    /\ prev_results' = [returned |-> returned, results |-> analysis_results]
    /\ now' = now + 1
    /\ calls' = calls + 1
    /\ UNCHANGED <<df_list, methodVars, storageVars, configVars>>

-----------------------------------------------------------------------------
(* Storage of a report in the GitHub repository.  A file of the store is    *)
(* analysis_results_<timestamp>.json, kept as its timestamp.                *)

\* What a request to the GitHub API can end in: a status code, or an
\* exception of requests (Timeout, ConnectionError, any other).
RequestOutcomes ==
    {"200", "201", "401", "404", "409", "500", "timeout", "connection error", "error"}

Accepted(outcome) == outcome \in {"200", "201"}

\* No save was made yet.
NoSave == [of |-> 0, success |-> FALSE, filename |-> 0, raised |-> FALSE]

NotShown == [displayed |-> FALSE, results |-> EmptyReport, github_success |-> FALSE]

IdleStorage ==
    /\ token = FALSE
    /\ store = {}
    /\ save_result = NoSave
    /\ shown = NotShown
    /\ other_files = {}

\* What the remote store can hold after a PUT of the file that ended in the
\* outcome: an accepted request created the file; a request that timed out
\* may have been carried out or not; any other left the store as it was.
StoreAfterPut(files, filename, outcome) ==
    IF Accepted(outcome) THEN {files \cup {filename}}
    ELSE IF outcome = "timeout" THEN {files, files \cup {filename}}
    ELSE {files}

\* GitHubStorage.save_analysis_results: (success, filename); filename 0 is None.
SaveAnalysisResultsReturn(is_connected, outcome, clock) ==
    IF ~is_connected THEN [success |-> FALSE, filename |-> 0]
    ELSE IF Accepted(outcome) THEN [success |-> TRUE, filename |-> clock]
    ELSE [success |-> FALSE, filename |-> 0]

\* A report waits to be saved: the run returned it and no save was made of it.
ReportToSave ==
    /\ returned = "value"
    /\ save_result.of # analysis_results.timestamp

\* Mutant: a failed request propagates out of save_analysis_results and the
\* report of the run is lost with it.
SaveAnalysisResultsUncaught ==
    /\ ReportToSave
    /\ \E outcome \in RequestOutcomes :
          /\ save_result' = [of       |-> analysis_results.timestamp,
                             success  |-> token /\ Accepted(outcome),
                             filename |-> IF token /\ Accepted(outcome)
                                          THEN now + 1 ELSE 0,
                             raised   |-> token /\ ~Accepted(outcome)]
          /\ store' \in IF token THEN StoreAfterPut(store, now + 1, outcome) ELSE {store}
          /\ analysis_results' = IF token /\ ~Accepted(outcome)
                                 THEN EmptyReport ELSE analysis_results
    /\ now' = now + 1
    /\ UNCHANGED <<df_list, returned, handmade_df, all_products_df,
                   prev_results, warnings, calls, methodVars, token, shown, other_files,
                   configVars>>

\* storage.save_analysis_results(analysis_results): without a token no
\* request is made; every exception is caught.
SaveAnalysisResults ==
    /\ ReportToSave
    /\ \E outcome \in RequestOutcomes :
          /\ \E r \in {SaveAnalysisResultsReturn(token, outcome, now + 1)} :
                save_result' = [of       |-> analysis_results.timestamp,
                                success  |-> r.success,
                                filename |-> r.filename,
                                raised   |-> FALSE]
          /\ store' \in IF token THEN StoreAfterPut(store, now + 1, outcome) ELSE {store}
    /\ now' = now + 1
    /\ UNCHANGED <<df_list, returned, analysis_results, handmade_df, all_products_df,
                   prev_results, warnings, calls, methodVars, token, shown, other_files,
                   configVars>>

\* main of app.py after the analysis: clear_github_results deletes the old
\* files (each delete can fail, and so can the listing), save_to_github puts
\* the new one and returns the success flag.
MainSaveToGithub ==
    /\ ReportToSave
    /\ \E outcome \in RequestOutcomes, cleared \in SUBSET store :
          /\ token \/ cleared = store
          /\ save_result' = [of       |-> analysis_results.timestamp,
                             success  |-> token /\ Accepted(outcome),
                             filename |-> IF token /\ Accepted(outcome)
                                          THEN now + 1 ELSE 0,
                             raised   |-> FALSE]
          /\ store' \in IF token THEN StoreAfterPut(cleared, now + 1, outcome) ELSE {store}
    /\ now' = now + 1
    /\ UNCHANGED <<df_list, returned, analysis_results, handmade_df, all_products_df,
                   prev_results, warnings, calls, methodVars, token, shown, other_files,
                   configVars>>

\* main of app.py: the report is kept in the session and displayed with the
\* success flag of the save.
ShowAnalysisResults ==
    /\ returned = "value"
    /\ save_result.of = analysis_results.timestamp
    /\ ~save_result.raised
    /\ shown' = [displayed      |-> TRUE,
                 results        |-> analysis_results,
                 github_success |-> save_result.success]
    /\ shown' # shown
    /\ UNCHANGED <<df_list, returned, analysis_results, handmade_df, all_products_df,
                   prev_results, warnings, now, calls, methodVars,
                   token, store, save_result, other_files, configVars>>

\* A file of the remote directory, by the start of its name, the timestamp
\* in it and the end of its name.
AnalysisFile(stamp) == [start |-> "analysis_results", stamp |-> stamp, end |-> ".json"]

\* The listing of the directory: the analysis files of the store and the rest.
Listing(files, others) == {AnalysisFile(t) : t \in files} \cup others

\* f['name'].startswith('analysis_results') and f['name'].endswith('.json')
IsAnalysisFile(f) == f.start = "analysis_results" /\ f.end = ".json"

\* analysis_files.sort(key=name, reverse=True)[:n]: the n greatest names.
\* The names of the analysis files differ in the timestamp only.
RECURSIVE Latest(_, _)
Latest(files, n) ==
    IF n = 0 \/ files = {} THEN {}
    ELSE LET f == CHOOSE g \in files : \A h \in files : h.stamp <= g.stamp
         IN  {f} \cup Latest(files \ {f}, n - 1)

\* Mutant: the sort is ascending, so the smallest names are the ones kept.
RECURSIVE FilesToDeleteAscending(_, _)
FilesToDeleteAscending(listing, keep_latest) ==
    LET analysis_files == {f \in listing : IsAnalysisFile(f)}
        f == CHOOSE g \in analysis_files : \A h \in analysis_files : h.stamp >= g.stamp
    IN  IF Cardinality(analysis_files) <= keep_latest THEN {}
        ELSE IF keep_latest = 0 THEN analysis_files
        ELSE FilesToDeleteAscending(listing \ {f}, keep_latest - 1)

\* files_to_delete of clear_old_analysis_results.
FilesToDelete(listing, keep_latest) ==
    LET analysis_files == {f \in listing : IsAnalysisFile(f)}
    IN  IF Cardinality(analysis_files) <= keep_latest THEN {}
        ELSE analysis_files \ Latest(analysis_files, keep_latest)

\* The cleanup was not run.
NoCleanup(listing) ==
    [success |-> FALSE, deleted_count |-> 0, listed |-> FALSE,
     requests |-> {}, deleted |-> {}, listing |-> listing]

\* GitHubStorage.clear_old_analysis_results with _delete_file: what a call
\* can end in.  The GET of the listing answers 200 or fails; each DELETE
\* answers 200 (deleted), answers another status or fails (the file stays),
\* or times out after the server carried it out (lost: gone, not counted).
ClearOldAnalysisResultsReturn(is_connected, listing, keep_latest) ==
    IF ~is_connected THEN {NoCleanup(listing)}
    ELSE {[NoCleanup(listing) EXCEPT !.listed = TRUE]}
         \cup {[success       |-> TRUE,
                deleted_count |-> Cardinality(deleted),
                listed        |-> TRUE,
                requests      |-> FilesToDelete(listing, keep_latest),
                deleted       |-> deleted,
                listing       |-> listing \ (deleted \cup lost)] :
                   deleted \in SUBSET FilesToDelete(listing, keep_latest),
                   lost \in SUBSET FilesToDelete(listing, keep_latest)}

\* What the call of a method of the storage records in result.
StorageCall(keep, before, saved, out, value) ==
    [returned |-> value, keep |-> keep, before |-> before, save_success |-> saved,
     cleanup_success |-> out.success, deleted_count |-> out.deleted_count,
     listed |-> out.listed, requests |-> out.requests, deleted |-> out.deleted]

StoreOf(listing) == {t \in store : AnalysisFile(t) \in listing}

\* clear_old_analysis_results(keep_latest) called on the storage.
ClearOldAnalysisResults ==
    /\ method = ""
    /\ \E keep_latest \in 0..MaxKeep :
         \E out \in ClearOldAnalysisResultsReturn(token, Listing(store, other_files),
                                                  keep_latest) :
            /\ store' = StoreOf(out.listing)
            /\ other_files' = other_files \cap out.listing
            /\ method' = "clear_old_analysis_results"
            /\ result' = StorageCall(keep_latest, Listing(store, other_files), FALSE,
                                      out, out.success)
    /\ UNCHANGED <<df, pipelineVars, token, save_result, shown, configVars>>

\* Mutant: the cleanup is run whether the save succeeded or not.
AutoSaveWithCleanupAlways ==
    /\ method = ""
    /\ \E keep_files \in 0..MaxKeep, outcome \in RequestOutcomes :
         \E saved \in IF token THEN StoreAfterPut(store, now + 1, outcome) ELSE {store} :
            LET save == SaveAnalysisResultsReturn(token, outcome, now + 1)
            IN  \E out \in ClearOldAnalysisResultsReturn(
                               token, Listing(saved, other_files), keep_files) :
                   /\ store' = {t \in saved : AnalysisFile(t) \in out.listing}
                   /\ other_files' = other_files \cap out.listing
                   /\ method' = "auto_save_with_cleanup"
                   /\ result' = StorageCall(keep_files, Listing(store, other_files),
                                            save.success, out, save.success)
    /\ now' = now + 1
    /\ UNCHANGED <<df, df_list, returned, analysis_results, handmade_df, all_products_df,
                   prev_results, warnings, calls, token, save_result, shown, configVars>>

\* auto_save_with_cleanup(analysis_data, keep_files) called on the storage.
AutoSaveWithCleanup ==
    /\ method = ""
    /\ \E keep_files \in 0..MaxKeep, outcome \in RequestOutcomes :
         \E saved \in IF token THEN StoreAfterPut(store, now + 1, outcome) ELSE {store} :
            LET save == SaveAnalysisResultsReturn(token, outcome, now + 1)
            IN  \E out \in IF save.success
                           THEN ClearOldAnalysisResultsReturn(
                                    token, Listing(saved, other_files), keep_files)
                           ELSE {NoCleanup(Listing(saved, other_files))} :
                   /\ store' = {t \in saved : AnalysisFile(t) \in out.listing}
                   /\ other_files' = other_files \cap out.listing
                   /\ method' = "auto_save_with_cleanup"
                   /\ result' = StorageCall(keep_files, Listing(store, other_files),
                                            save.success, out, save.success)
    /\ now' = now + 1
    /\ UNCHANGED <<df, df_list, returned, analysis_results, handmade_df, all_products_df,
                   prev_results, warnings, calls, token, save_result, shown, configVars>>

-----------------------------------------------------------------------------
(* Inputs of the pipeline *)

\* The sequences over S of length n.
RECURSIVE SeqsOfLen(_, _)
SeqsOfLen(S, n) ==
    IF n = 0 THEN {<<>>}
    ELSE {Append(s, x) : s \in SeqsOfLen(S, n - 1), x \in S}

SeqsUpTo(S, n) == UNION {SeqsOfLen(S, k) : k \in 0..n}

PipelineColumnSets ==
    {AllColumns,
     AllColumns \ {"factory"},
     AllColumns \ {"count"},
     {"brand", "platform"},
     {"product_name", "platform"}}

\* Rows of ours with the flag 0 and 1, rows of a competitor with the flag 0
\* and with a missing flag.
PipelineRows ==
    {[brand        |-> bf[1],
      product_name |-> "X",
      volume       |-> 500,
      count        |-> 1,
      lowest_price |-> 3000,
      unit_price   |-> IF bf[1] = OUR_BRAND THEN 1000 ELSE 1200,
      factory      |-> bf[2],
      reviews      |-> 50,
      rating       |-> 46,
      platform     |-> "P"] :
        bf \in {<<OUR_BRAND, 0>>, <<OUR_BRAND, 1>>, <<"A", 0>>, <<"A", NaN>>}}

\* The normalized tables by number of rows.
PipelineTables ==
    [n \in 0..MaxRows |->
        {[columns |-> cols, rows |-> [i \in 1..n |-> Project(rows[i], cols)]] :
            cols \in PipelineColumnSets, rows \in SeqsOfLen(PipelineRows, n)}]

\* The sequences of at most k table sizes that add up to at most n.
RECURSIVE SizeLists(_, _)
SizeLists(k, n) ==
    IF k = 0 THEN {<<>>}
    ELSE {<<>>} \cup UNION {{<<m>> \o l : l \in SizeLists(k - 1, n - m)} : m \in 0..n}

\* The lists of tables of the given sizes.
RECURSIVE ListsOfSizes(_)
ListsOfSizes(sizes) ==
    IF sizes = <<>> THEN {<<>>}
    ELSE {<<t>> \o l : t \in PipelineTables[Head(sizes)], l \in ListsOfSizes(Tail(sizes))}

\* The lists of at most MaxTables tables that hold at most MaxRows rows together.
PipelineLists == UNION {ListsOfSizes(sizes) : sizes \in SizeLists(MaxTables, MaxRows)}

IdleMethod ==
    /\ df = EmptyTable
    /\ method = ""
    /\ result = <<>>

IdleRun ==
    /\ returned = "idle"
    /\ analysis_results = EmptyReport
    /\ handmade_df = EmptyTable
    /\ all_products_df = EmptyTable
    /\ prev_results = [returned |-> "idle", results |-> EmptyReport]
    /\ warnings = {}
    /\ now = 0
    /\ calls = 0

IdleCall == IdleRun /\ IdleStorage /\ DefaultConfig

IdlePipeline == df_list = <<>> /\ IdleCall

Init ==
    /\ df_list \in PipelineLists
    /\ IdleCall
    /\ IdleMethod

Next == Analyze

Spec == Init /\ [][Next]_vars

-----------------------------------------------------------------------------
(* The methods of the analyzer called on their own on one table *)

\* A method that raises leaves no result.
Raised == "raised"

\* _calculate_unique_products(df); it warns before it groups by brand alone.
CallCalculateUniqueProducts ==
    /\ method = ""
    /\ IF CalculateUniqueProductsRaises(df)
       THEN method' = Raised /\ result' = <<>>
       ELSE method' = "_calculate_unique_products"
            /\ result' = CalculateUniqueProducts(df)
    /\ warnings' = IF CalculateUniqueProductsWarns(df)
                   THEN {"insufficient columns"} ELSE {}
    /\ UNCHANGED callVars

\* The st.warning signals of _analyze_market_share.
AnalyzeMarketShareWarnings(t) ==
    (IF CalculateUniqueProductsWarns(t) THEN {"insufficient columns"} ELSE {})
    \cup (IF AnalyzeMarketShareFails(t) THEN {"market share failed"} ELSE {})

\* Mutant: _analyze_market_share without its except clause.
CallAnalyzeMarketShareUncaught ==
    /\ method = ""
    /\ IF AnalyzeMarketShareFails(df)
       THEN method' = Raised /\ result' = <<>>
       ELSE method' = "_analyze_market_share"
            /\ result' = AnalyzeMarketShare(df)
    /\ warnings' = AnalyzeMarketShareWarnings(df)
    /\ UNCHANGED callVars

\* _analyze_market_share(df)
CallAnalyzeMarketShare ==
    /\ method = ""
    /\ method' = "_analyze_market_share"
    /\ result' = AnalyzeMarketShare(df)
    /\ warnings' = AnalyzeMarketShareWarnings(df)
    /\ UNCHANGED callVars

\* _analyze_volume_market(df)
CallAnalyzeVolumeMarket ==
    /\ method = ""
    /\ method' = "_analyze_volume_market"
    /\ result' = AnalyzeVolumeMarket(df)
    /\ warnings' = IF AnalyzeVolumeMarketFails(df) THEN {"volume market failed"} ELSE {}
    /\ UNCHANGED callVars

\* _calculate_performance_rankings(our_products, unique_our_products), with
\* the arguments _analyze_our_products gives it.
CallCalculatePerformanceRankings ==
    /\ method = ""
    /\ IF AnalyzeOurProductsRaises(df)
       THEN method' = Raised /\ result' = <<>>
       ELSE method' = "_calculate_performance_rankings"
            /\ result' = CalculatePerformanceRankings(
                             OurTable(df), CalculateUniqueProducts(OurTable(df)).rows)
    /\ UNCHANGED <<warnings, callVars>>

\* _analyze_our_products(df)
CallAnalyzeOurProducts ==
    /\ method = ""
    /\ IF AnalyzeOurProductsRaises(df)
       THEN method' = Raised /\ result' = <<>>
       ELSE method' = "_analyze_our_products"
            /\ result' = AnalyzeOurProducts(df)
    /\ UNCHANGED <<warnings, callVars>>

\* _detailed_competitiveness_analysis(df)
CallDetailedCompetitivenessAnalysis ==
    /\ method = ""
    /\ IF DetailedCompetitivenessAnalysisRaises(df)
       THEN method' = Raised /\ result' = <<>>
       ELSE method' = "_detailed_competitiveness_analysis"
            /\ result' = DetailedCompetitivenessAnalysis(df)
    /\ UNCHANGED <<warnings, callVars>>

Returned == method # ""

\* A full row with the given cells.
Row(brand, product_name, volume, count, unit_price, platform) ==
    [brand        |-> brand,
     product_name |-> product_name,
     volume       |-> volume,
     count        |-> count,
     lowest_price |-> 3000,
     unit_price   |-> unit_price,
     factory      |-> 0,
     reviews      |-> 10,
     rating       |-> 40,
     platform     |-> platform]

-----------------------------------------------------------------------------
(* Inputs of the identity resolver *)

\* A row of ours, the rows that differ from it in one key column or in all,
\* and two rows with a missing key.
ResolverRows ==
    {Row(OUR_BRAND, "X", 500, 1, 1000, "P"),
     Row("A", "X", 500, 1, 1000, "P"),
     Row(OUR_BRAND, "Y", 500, 1, 1000, "P"),
     Row(OUR_BRAND, "X", 1000, 1, 1000, "P"),
     Row(OUR_BRAND, "X", 500, 2, 1000, "P"),
     Row("A", "Y", 1000, 2, 1000, "P"),
     Row(OUR_BRAND, "X", NaN, 1, 1000, "P"),
     Row("A", "X", 500, NaN, 1000, "P"),
     [Row(OUR_BRAND, "X", 500, 1, 900, "Q") EXCEPT !.lowest_price = 3500],
     [Row(OUR_BRAND, "X", 500, 1, 1100, "Q") EXCEPT !.lowest_price = 2500],
     [Row(OUR_BRAND, "X", 500, 1, NaN, "P") EXCEPT !.lowest_price = NaN]}

ResolverTables ==
    {[columns |-> AllColumns, rows |-> rows] :
        rows \in SeqsUpTo(ResolverRows, MaxResolverRows)}

InitResolver ==
    /\ df \in ResolverTables
    /\ method = ""
    /\ result = <<>>
    /\ IdlePipeline

NextResolver == CallCalculateUniqueProducts

SpecResolver == InitResolver /\ [][NextResolver]_vars

-----------------------------------------------------------------------------
(* Inputs of the market-share analysis: brand i has parts[i] unique         *)
(* products, the brands with more products first; in one variant the first *)
(* product is listed twice.                                                 *)

\* The sequences of at most k parts, each at most m and none greater than
\* the one before it, that add up to at most n.
RECURSIVE Partitions(_, _, _)
Partitions(n, k, m) ==
    IF k = 0 THEN {<<>>}
    ELSE {<<>>} \cup
         UNION {{<<part>> \o rest : rest \in Partitions(n - part, k - 1, part)} :
                  part \in 1..(IF m < n THEN m ELSE n)}

RECURSIVE ShareRows(_, _)
ShareRows(parts, i) ==
    IF i > Len(parts) THEN <<>>
    ELSE [j \in 1..parts[i] |-> Row(TextOrder[i], TextOrder[j], 500, 1, 1000, "P")]
         \o ShareRows(parts, i + 1)

ShareTables ==
    {[columns |-> AllColumns,
      rows    |-> IF twice
                  THEN <<ShareRows(parts, 1)[1]>> \o ShareRows(parts, 1)
                  ELSE ShareRows(parts, 1)] :
        parts \in Partitions(MaxShareProducts, MaxShareBrands, MaxShareProducts) \ {<<>>},
        twice \in BOOLEAN}

InitShare ==
    /\ df \in ShareTables
    /\ method = ""
    /\ result = <<>>
    /\ IdlePipeline

NextShare == CallAnalyzeMarketShare

SpecShare == InitShare /\ [][NextShare]_vars

-----------------------------------------------------------------------------
(* Inputs of the competitor matcher: our rows of 500 ml x 1 on platform P   *)
(* and competitor rows around them.                                         *)

MatcherOurRows ==
    {Row(OUR_BRAND, "X", 500, 1, p, "P") : p \in {1000, 1200, 1300, 1400}}
    \cup {Row(OUR_BRAND, "X", NaN, 1, 1000, "P"), Row(OUR_BRAND, "X", 500, 1, NaN, "P")}

MatcherCompetitorRows ==
    {Row("A", "Y", vc[1], vc[2], p, "P") :
        vc \in {<<500, 1>>, <<600, 1>>, <<1000, 1>>, <<1000, 2>>},
        p \in {1000, 1400, NaN}}

MatcherTables ==
    {[columns |-> AllColumns, rows |-> ours \o competitors] :
        ours \in SeqsUpTo(MatcherOurRows, MaxOurRows),
        competitors \in SeqsUpTo(MatcherCompetitorRows, MaxCompetitorRows)}

InitMatcher ==
    /\ df \in MatcherTables
    /\ method = ""
    /\ result = <<>>
    /\ IdlePipeline

NextMatcher == CallDetailedCompetitivenessAnalysis

SpecMatcher == InitMatcher /\ [][NextMatcher]_vars

-----------------------------------------------------------------------------
(* Inputs of the competitor matcher with a volume cell that was not coerced *)
(* to a number, on two platforms.                                           *)

FaultRows ==
    {Row(OUR_BRAND, "X", v, 1, 1000, pf) : v \in {500, BadCell}, pf \in {"P", "Q"}}
    \cup {Row("A", "Y", v, 1, 1200, pf) : v \in {500, 1000}, pf \in {"P", "Q"}}

FaultTables ==
    {[columns |-> AllColumns, rows |-> rows] : rows \in SeqsUpTo(FaultRows, MaxFaultRows)}

InitFault ==
    /\ df \in FaultTables
    /\ method = ""
    /\ result = <<>>
    /\ IdlePipeline

NextFault == CallDetailedCompetitivenessAnalysis

SpecFault == InitFault /\ [][NextFault]_vars

-----------------------------------------------------------------------------
(* Claims about the pipeline, checked under Spec *)

Called == calls > 0

Combined == Concat(df_list)

FlagIsZero(r) == r.factory = 0

\* The content of a report: every field but the timestamp.
Content(report) == [report EXCEPT !.timestamp = 0]

\* C1: analyze_business_critical_data returns a null report if and only if
\* the list of tables is empty: the empty list gives null without raising,
\* and every list that is not empty gives a report.
C1_NullIffEmptyList ==
    Called => /\ df_list = <<>> => returned = "none"
              /\ df_list # <<>> => returned = "value"

\* C4: with fewer than 2 of the 4 grouping columns in a category table that
\* is not empty, the category analysis returns, without raising, a result
\* whose three unique-product counts are 0 and whose three raw counts are
\* the numbers of rows.
C4_PartialResultWithFewKeyColumns ==
    (Called /\ Combined.rows # <<>> /\ Cardinality(AvailableCols(Combined)) < 2)
    => /\ returned = "value"
       /\ analysis_results.all_category.total_unique_products = 0
       /\ analysis_results.all_category.our_unique_products_count = 0
       /\ analysis_results.all_category.competitor_unique_products_count = 0
       /\ analysis_results.all_category.total_products_analyzed = Len(Combined.rows)
       /\ analysis_results.all_category.our_products_count
            = Len(Select(Combined.rows, IsOurs))
       /\ analysis_results.all_category.competitor_products_count
            = Len(Select(Combined.rows, IsCompetitor))

\* C5: for a table with brand, product name and volume but no pack-count
\* column, the category analysis completes without raising whatever the rows
\* are, and total_products_analyzed is the number of rows.
C5_NoPackCountColumnCompletes ==
    (Called /\ {"brand", "product_name", "volume"} \subseteq Combined.columns
            /\ "count" \notin Combined.columns)
    => /\ returned = "value"
       /\ analysis_results.all_category.total_products_analyzed = Len(Combined.rows)

\* C7: the handmade subset is exactly the rows of the combined table whose
\* factory flag is 0 (a flag of 1 or a missing flag leaves the row out) and
\* the 'all' subset is every row; without the flag column both subsets are
\* the whole combined table and a warning is signaled.
C7_HandmadeIsFlagZero ==
    returned = "value"
    => /\ all_products_df = Combined
       /\ handmade_df.columns = Combined.columns
       /\ "factory" \in Combined.columns
            => /\ handmade_df.rows = Select(Combined.rows, FlagIsZero)
               /\ "factory column missing" \notin warnings
       /\ "factory" \notin Combined.columns
            => /\ handmade_df = Combined
               /\ "factory column missing" \in warnings
       /\ analysis_results.handmade_category.total_products_analyzed
            = Len(handmade_df.rows)
       /\ analysis_results.all_category.total_products_analyzed = Len(Combined.rows)

\* C7 witness: a report over a combined table with the flag column in which
\* a row with flag 0 is kept and a row with a missing flag is left out.
C7_Witness ==
    /\ returned = "value"
    /\ "factory" \in Combined.columns
    /\ \E i \in 1..Len(Combined.rows) : Combined.rows[i].factory = 0
    /\ \E i \in 1..Len(Combined.rows) : isna(Combined.rows[i].factory)
    /\ Len(handmade_df.rows) = 1
    /\ Len(all_products_df.rows) = 2

-----------------------------------------------------------------------------
(* Claims about the competitor matcher, checked under SpecMatcher *)

OurRows == Select(df.rows, IsOurs)

CompetitorRows == Select(df.rows, IsCompetitor)

Complete(r) == ~isna(r.volume) /\ ~isna(r.count) /\ ~isna(r.unit_price)

\* The positions of the competitor rows with our volume and our pack count.
ExactCohort(o) ==
    {i \in 1..Len(CompetitorRows) :
        CompetitorRows[i].volume = o.volume /\ CompetitorRows[i].count = o.count}

\* The positions of the competitor rows with our pack count and a volume
\* within 20% of ours.
SimilarCohort(o) ==
    {i \in 1..Len(CompetitorRows) :
        /\ CompetitorRows[i].count = o.count
        /\ 5 * CompetitorRows[i].volume >= 4 * o.volume
        /\ 5 * CompetitorRows[i].volume <= 6 * o.volume}

\* The positions of the competitor rows with our pack count.
SameCountCohort(o) ==
    {i \in 1..Len(CompetitorRows) : CompetitorRows[i].count = o.count}

WholePlatform == 1..Len(CompetitorRows)

FirstCohort(o) ==
    IF ExactCohort(o) # {} THEN [tier |-> TierExact, members |-> ExactCohort(o)]
    ELSE IF SimilarCohort(o) # {} THEN [tier |-> TierSimilar, members |-> SimilarCohort(o)]
    ELSE IF SameCountCohort(o) # {}
    THEN [tier |-> TierSameCount, members |-> SameCountCohort(o)]
    ELSE [tier |-> TierMarket, members |-> WholePlatform]

\* The entries of the result, over all platforms.
RECURSIVE EntriesOf(_)
EntriesOf(items) ==
    IF items = <<>> THEN <<>> ELSE Head(items).entries \o EntriesOf(Tail(items))

Matched == method = "_detailed_competitiveness_analysis"

\* C2: for a row of ours and competitor rows on its platform,
\* _find_best_competitors returns the first cohort that is not empty in the
\* order exact, similar volume, same pack count, whole platform, with that
\* tier's label; the entry of the row carries the label and the size of
\* that cohort.
C2_FirstNonEmptyCohort ==
    (Matched /\ CompetitorRows # <<>>)
    => \A k \in 1..Len(OurRows) :
          Complete(OurRows[k])
          => \E best \in {FindBestCompetitors(OurRows[k].volume, OurRows[k].count,
                                               CompetitorRows)} :
                /\ best.comparison_type.tier = FirstCohort(OurRows[k]).tier
                /\ Len(best.selected) = Cardinality(FirstCohort(OurRows[k]).members)
                /\ \A i \in FirstCohort(OurRows[k]).members :
                      CompetitorRows[i] \in Range(best.selected)
                /\ \A e \in Range(EntriesOf(result)) :
                      /\ e.comparison_type.tier = best.comparison_type.tier
                      /\ e.competitor_count = Len(best.selected)

\* C2 witness: the exact cohort has a member, the similar-volume cohort has
\* one more, and the entry is tagged with the exact tier.
C2_Witness ==
    /\ Matched
    /\ Len(OurRows) = 1
    /\ Cardinality(ExactCohort(OurRows[1])) = 1
    /\ Cardinality(SimilarCohort(OurRows[1])) = 2
    /\ Len(EntriesOf(result)) = 1
    /\ EntriesOf(result)[1].comparison_type.tier = TierExact
    /\ EntriesOf(result)[1].competitor_count = 1

\* C3: the position of an entry is exactly one of the four labels, the one
\* of the first rule that matches in the order price <= min, price <= mean,
\* price <= max, else.
C3_PositionByFirstRule ==
    Matched
    => \A e \in Range(EntriesOf(result)) :
          /\ e.market_position \in {LowestPrice, BelowAverage, AboveAverage, HighestPrice}
          /\ e.competitor_min * e.avg_n <= e.avg_sum
          /\ e.avg_sum <= e.competitor_max * e.avg_n
          /\ e.market_position = LowestPrice <=> e.our_unit_price <= e.competitor_min
          /\ e.market_position = BelowAverage
               <=> /\ e.our_unit_price > e.competitor_min
                   /\ e.our_unit_price * e.avg_n <= e.avg_sum
          /\ e.market_position = AboveAverage
               <=> /\ e.our_unit_price * e.avg_n > e.avg_sum
                   /\ e.our_unit_price <= e.competitor_max
          /\ e.market_position = HighestPrice <=> e.our_unit_price > e.competitor_max

\* C3 witness: our price is the minimum and the mean of the cohort, and the
\* entry says lowest price.
C3_Witness ==
    /\ Matched
    /\ \E e \in Range(EntriesOf(result)) :
          /\ e.our_unit_price = e.competitor_min
          /\ e.our_unit_price * e.avg_n = e.avg_sum
          /\ e.market_position = LowestPrice

-----------------------------------------------------------------------------
(* Claim about a row whose computation raises, checked under SpecFault *)

\* The rows of ours for which _analyze_single_product_competitiveness is
\* called and its body raises.
FailingRow(r) ==
    LET OnPlatform(c) == c.platform = r.platform
    IN /\ IsOurs(r)
       /\ Select(CompetitorRows, OnPlatform) # <<>>
       /\ SingleProductRaises(r, Select(CompetitorRows, OnPlatform))

NotFailingRow(r) == ~FailingRow(r)

WithoutFailingRows == [df EXCEPT !.rows = Select(df.rows, NotFailingRow)]

\* C10: a row of ours whose computation raises gives no entry and the loop
\* goes on: the analysis does not raise, and the platforms and their entries
\* are those of the table without that row.
C10_FailingRowIsSkipped ==
    Returned
    => /\ method # Raised
       /\ Range(result) = Range(DetailedCompetitivenessAnalysis(WithoutFailingRows))

\* C10 witness: a failing row comes before another row of ours on the same
\* platform, and that row has its entry.
C10_Witness ==
    /\ Matched
    /\ \E i, j \in 1..Len(df.rows) :
          /\ i < j
          /\ FailingRow(df.rows[i])
          /\ IsOurs(df.rows[j])
          /\ ~FailingRow(df.rows[j])
          /\ df.rows[j].platform = df.rows[i].platform
          /\ \E item \in Range(result) :
                /\ item.platform = df.rows[j].platform
                /\ Len(item.entries) = 1

-----------------------------------------------------------------------------
(* Claim about the identity resolver, checked under SpecResolver *)

Resolved == method = "_calculate_unique_products"

IdentityOf(r) == <<r.brand, r.product_name, r.volume, r.count>>

\* C6: over a table with the four key columns, every source row of a unique
\* product has the brand, product name, volume and pack count of that
\* product, and two distinct unique products differ in one of the four.
C6_GroupingUniqueness ==
    (Resolved /\ Range(KeyColumns) \subseteq df.columns)
    => /\ \A i \in 1..Len(result.rows) :
             \A j \in result.rows[i].src :
                IdentityOf(df.rows[j]) = IdentityOf(result.rows[i])
       /\ \A i, j \in 1..Len(result.rows) :
             i # j => IdentityOf(result.rows[i]) # IdentityOf(result.rows[j])

\* C6 witness: two unique products, one of them with two source rows.
C6_Witness ==
    /\ Resolved
    /\ Len(result.rows) = 2
    /\ \E i \in 1..Len(result.rows) : Cardinality(result.rows[i].src) = 2

-----------------------------------------------------------------------------
(* Claim about the market share, checked under SpecShare *)

Shared == method = "_analyze_market_share"

\* The sum of the percent shares of the reported brands, in tenths.
ShareSum == SumSeq([i \in 1..Len(result) |-> result[i].share_percent])

ReportedProducts == SumSeq([i \in 1..Len(result) |-> result[i].product_count])

DistinctBrands == {df.rows[i].brand : i \in 1..Len(df.rows)} \ {NaNText}

Abs(x) == IF x < 0 THEN -x ELSE x

-----------------------------------------------------------------------------
(* Inputs of the volume breakdown and of the market share called on their   *)
(* own: tables with and without the brand and the pack-count column.        *)

InsightColumnSets ==
    {AllColumns,
     AllColumns \ {"brand"},
     AllColumns \ {"count"},
     {"brand", "platform"}}

InsightRows ==
    {Row(OUR_BRAND, "X", 500, 1, 1000, "P"),
     Row("A", "Y", 500, 1, 1200, "P"),
     Row("A", "Y", 1000, NaN, 1200, "P"),
     Row("A", "Z", 1000, 2, NaN, "P")}

InsightTables ==
    {[columns |-> cols, rows |-> [i \in 1..Len(rows) |-> Project(rows[i], cols)]] :
        cols \in InsightColumnSets, rows \in SeqsUpTo(InsightRows, MaxInsightRows)}

InitInsight ==
    /\ df \in InsightTables
    /\ method = ""
    /\ result = <<>>
    /\ IdlePipeline

NextInsight ==
    \/ CallAnalyzeVolumeMarket
    \/ CallAnalyzeMarketShare

SpecInsight == InitInsight /\ [][NextInsight]_vars

-----------------------------------------------------------------------------
(* Analysis runs followed by the save and the display of their report *)

StorageLists ==
    {<<[columns |-> AllColumns, rows |-> rows]>> :
        rows \in SeqsUpTo(PipelineRows, MaxStorageRows)}

InitStorage ==
    /\ df_list \in StorageLists
    /\ IdleRun
    /\ IdleMethod
    /\ token \in BOOLEAN
    /\ store \in {{}, {0}}
    /\ save_result = NoSave
    /\ shown = NotShown
    /\ other_files = {}
    /\ DefaultConfig

NextStorage ==
    \/ Analyze
    \/ SaveAnalysisResults
    \/ MainSaveToGithub
    \/ ShowAnalysisResults

SpecStorage == InitStorage /\ [][NextStorage]_vars

SaveMade == returned = "value" /\ save_result.of = analysis_results.timestamp

\* C12: the report of a run does not depend on the outcome of its save: a
\* save that fails (no token, HTTP error, timeout, connection error) does
\* not raise and returns a false flag, the report stays what the run
\* returned, and it can be displayed, with the flag of the save.
C12_ReportIndependentOfSave ==
    /\ returned = "value"
         => analysis_results
              = AnalyzeBusinessCriticalData(df_list, analysis_results.timestamp).results
    /\ ~save_result.raised
    /\ save_result.success => token /\ save_result.filename \in store
    /\ ~token => ~save_result.success
    /\ (SaveMade /\ shown.results # analysis_results) => ENABLED ShowAnalysisResults
    /\ shown.displayed
         => /\ shown.results
                 = AnalyzeBusinessCriticalData(df_list, shown.results.timestamp).results
            /\ shown.results.timestamp = analysis_results.timestamp
                 => shown.github_success = save_result.success

\* C12 witness: with a token configured the save of a report over rows has
\* failed, and the report is displayed with the false flag.
C12_Witness ==
    /\ token
    /\ SaveMade
    /\ ~save_result.success
    /\ shown.displayed
    /\ shown.results = analysis_results
    /\ ~shown.github_success
    /\ analysis_results.all_category.total_products_analyzed > 0

-----------------------------------------------------------------------------
(* The identity resolver called on tables that have any subset of the      *)
(* columns it looks at.                                                     *)

ResolverColumns ==
    {"brand", "product_name", "volume", "count", "lowest_price", "unit_price",
     "platform"}

ColumnRows ==
    {Row(OUR_BRAND, "X", 500, 1, 1000, "P"),
     Row("A", "Y", 1000, NaN, 1200, "P")}

ColumnTables ==
    {[columns |-> cols, rows |-> [i \in 1..Len(rows) |-> Project(rows[i], cols)]] :
        cols \in SUBSET ResolverColumns, rows \in SeqsUpTo(ColumnRows, MaxColumnRows)}

InitColumns ==
    /\ df \in ColumnTables
    /\ method = ""
    /\ result = <<>>
    /\ IdlePipeline

NextColumns == CallCalculateUniqueProducts

SpecColumns == InitColumns /\ [][NextColumns]_vars

\* C13: for every subset of the columns present in the table,
\* _calculate_unique_products returns a table and does not raise; with
\* fewer than 2 key columns it has warned.
C13_ResolverNeverRaises ==
    /\ method # Raised
    /\ (method = "_calculate_unique_products" /\ CalculateUniqueProductsWarns(df))
         => "insufficient columns" \in warnings

-----------------------------------------------------------------------------
(* Inputs of the scoring of our products: products of ours X, Y and Z with *)
(* their review counts and ratings (in tenths), competitor rows with       *)
(* theirs, in tables with and without the review and the rating column.    *)

ScorerRow(brand, product_name, reviews, rating) ==
    [Row(brand, product_name, 500, 1, 1000, "P") EXCEPT
        !.reviews = reviews, !.rating = rating]

ScorerRows ==
    {ScorerRow(OUR_BRAND, "X", 50, 46),
     ScorerRow(OUR_BRAND, "X", 40, 45),
     ScorerRow(OUR_BRAND, "X", 10, 0),
     ScorerRow(OUR_BRAND, "X", 60, 40),
     ScorerRow(OUR_BRAND, "Y", 20, 44),
     ScorerRow(OUR_BRAND, "Y", 20, 40),
     ScorerRow(OUR_BRAND, "Y", 10, 39),
     ScorerRow(OUR_BRAND, "Z", 0, 0),
     ScorerRow(OUR_BRAND, "Z", NaN, NaN),
     ScorerRow("A", "W", 20, 40),
     ScorerRow("A", "W", 30, 46),
     ScorerRow("A", "W", 0, 0),
     ScorerRow("A", "W", NaN, NaN)}

ScorerColumnSets ==
    {AllColumns, AllColumns \ {"reviews"}, AllColumns \ {"reviews", "rating"}}

ScorerTables ==
    {[columns |-> cols, rows |-> [i \in 1..Len(rows) |-> Project(rows[i], cols)]] :
        cols \in ScorerColumnSets, rows \in SeqsUpTo(ScorerRows, MaxScorerRows)}

InitScorer ==
    /\ df \in ScorerTables
    /\ method = ""
    /\ result = <<>>
    /\ IdlePipeline

NextScorer ==
    \/ CallAnalyzeOurProducts
    \/ CallCalculatePerformanceRankings

SpecScorer == InitScorer /\ [][NextScorer]_vars

Scored == method = "_analyze_our_products"

\* The rows of ours that a detail entry was made from.
EntryRows(e) ==
    {i \in 1..Len(df.rows) :
        /\ df.rows[i].brand = OUR_BRAND
        /\ df.rows[i].product_name = e.product_name
        /\ df.rows[i].volume = e.volume
        /\ df.rows[i].count = e.count}

EntryReviews(e) ==
    LET m == NanMax({df.rows[i].reviews : i \in EntryRows(e)})
    IN IF isna(m) THEN 0 ELSE m

EntryRating(e) ==
    LET m == NanMax({df.rows[i].rating : i \in EntryRows(e)})
    IN IF isna(m) THEN 0 ELSE m

EntryScore(e) == IF EntryRating(e) > 0 THEN EntryReviews(e) * EntryRating(e) ELSE 0

\* Ranks 1..n without repeats, a higher score before a lower one.
RankedByScore ==
    /\ \A i \in 1..Len(result) :
          /\ result[i].brand_rank.class = "rank"
          /\ result[i].brand_rank.of = Len(result)
    /\ {result[i].brand_rank.rank : i \in 1..Len(result)} = 1..Len(result)
    /\ \A i, j \in 1..Len(result) :
          EntryScore(result[i]) > EntryScore(result[j])
            => result[i].brand_rank.rank < result[j].brand_rank.rank

\* C14 as stated: with 2 or more unique products of ours the ranks are the
\* positions 1..n by descending performance score, and with exactly one the
\* product reports "single product", whatever the table.
C14_RankOrSingleAlways ==
    Scored =>
        /\ Len(result) >= 2 => RankedByScore
        /\ Len(result) = 1 => result[1].brand_rank.class = "single product"

\* C14 amended: that holds for a table with the review and the rating
\* column; without one of them every product reports "no data".
C14_RankOrSingleWithReviewColumns ==
    Scored =>
        /\ (HasReviewRating(df) /\ Len(result) >= 2) => RankedByScore
        /\ (HasReviewRating(df) /\ Len(result) = 1)
             => result[1].brand_rank.class = "single product"
        /\ ~HasReviewRating(df)
             => \A i \in 1..Len(result) : result[i].brand_rank.class = NoData

\* C14 witness: two products of ours are ranked, the second in key order
\* first because its score is higher.
C14_Witness ==
    /\ Scored
    /\ HasReviewRating(df)
    /\ Len(result) = 2
    /\ EntryScore(result[2]) > EntryScore(result[1])
    /\ result[2].brand_rank.rank = 1
    /\ result[1].brand_rank.rank = 2

\* The competitor rows with a positive review count, whose mean review
\* count is the competitor average a = AvgSum / AvgN.
ReviewedCompetitors ==
    {i \in 1..Len(df.rows) :
        /\ df.rows[i].brand # OUR_BRAND
        /\ ~isna(df.rows[i].reviews)
        /\ df.rows[i].reviews > 0}

RECURSIVE SumReviews(_)
SumReviews(S) ==
    IF S = {} THEN 0
    ELSE LET i == CHOOSE j \in S : TRUE
         IN df.rows[i].reviews + SumReviews(S \ {i})

AvgSum == SumReviews(ReviewedCompetitors)

AvgN == Cardinality(ReviewedCompetitors)

\* The class by the ratio r / a, for a > 0.
RatioClass(r) ==
    IF r * AvgN >= 2 * AvgSum THEN "high"
    ELSE IF r * AvgN >= AvgSum THEN "above average"
    ELSE "normal"

\* C15 as stated: with a > 0 the class follows the ratio r / a for every r,
\* r = 0 included; only with a = 0 is the product classified by its count,
\* "no reviews" for r = 0.
C15_ReactionByRatioForEveryCount ==
    (Scored /\ HasReviewRating(df)) =>
        \A i \in 1..Len(result) :
            LET r == EntryReviews(result[i])
                class == result[i].market_reaction.class
            IN /\ AvgN > 0 => class = RatioClass(r)
               /\ (AvgN = 0 /\ r = 0) => class = "no reviews"
               /\ (AvgN = 0 /\ r > 0) => class = "count only"

\* C15 amended: the ratio classifies a product only when a > 0 and r > 0;
\* a product with r = 0 reports "no reviews" whatever a is, and a product
\* with r > 0 is classified by its count alone when a is 0.
C15_ReactionByRatioForPositiveCount ==
    (Scored /\ HasReviewRating(df)) =>
        \A i \in 1..Len(result) :
            LET r == EntryReviews(result[i])
                class == result[i].market_reaction.class
            IN /\ (AvgN > 0 /\ r > 0) => class = RatioClass(r)
               /\ r = 0 => class = "no reviews"
               /\ (AvgN = 0 /\ r > 0) => class = "count only"

\* C15 witness: a product of ours without reviews, against competitors whose
\* average review count is positive, reports "no reviews".
C15_Witness ==
    /\ Scored
    /\ HasReviewRating(df)
    /\ AvgN > 0
    /\ \E i \in 1..Len(result) :
          /\ EntryReviews(result[i]) = 0
          /\ result[i].market_reaction.class = "no reviews"

\* C16: the customer satisfaction of a product is exactly one of four
\* classes of its rating: "excellent" from the configured excellent_rating
\* up, "good" from the configured good_rating up to below excellent_rating,
\* "needs improvement" for a positive rating below good_rating, and
\* "no rating" for a rating of 0 or a missing one.
C16_SatisfactionByRating ==
    (Scored /\ HasReviewRating(df)) =>
        \A i \in 1..Len(result) :
            LET rating == EntryRating(result[i])
                class == result[i].customer_satisfaction.class
            IN /\ class \in {"excellent", "good", "needs improvement", "no rating"}
               /\ class = "excellent" <=> rating >= excellent_rating
               /\ class = "good" <=> (good_rating <= rating /\ rating < excellent_rating)
               /\ class = "needs improvement" <=> (0 < rating /\ rating < good_rating)
               /\ class = "no rating" <=> rating = 0

\* C16 witness: a product rated exactly excellent_rating is "excellent" and
\* one rated exactly good_rating is "good".
C16_Witness ==
    /\ Scored
    /\ HasReviewRating(df)
    /\ \E i, j \in 1..Len(result) :
          /\ EntryRating(result[i]) = excellent_rating
          /\ result[i].customer_satisfaction.class = "excellent"
          /\ EntryRating(result[j]) = good_rating
          /\ result[j].customer_satisfaction.class = "good"

\* The zero-filled result: six counts of 0 and no business insights.
ZeroFilled(category) ==
    /\ category.total_products_analyzed = 0
    /\ category.total_unique_products = 0
    /\ category.our_products_count = 0
    /\ category.our_unique_products_count = 0
    /\ category.competitor_products_count = 0
    /\ category.competitor_unique_products_count = 0
    /\ category.business_insights = NoInsights

\* C17: a category whose table is empty gets the zero-filled result, and no
\* sub-analysis runs on it (a run over an empty combined table returns a
\* report and signals nothing from the categories, whatever columns the
\* table has); the handmade category of a table with the flag column gets
\* it whenever no row has the flag 0.
C17_EmptyCategoryIsZeroFilled ==
    (Called /\ df_list # <<>>) =>
        /\ Combined.rows = <<>>
             => /\ returned = "value"
                /\ warnings \subseteq {"factory column missing"}
        /\ returned = "value"
             => /\ handmade_df.rows = <<>>
                     => ZeroFilled(analysis_results.handmade_category)
                /\ all_products_df.rows = <<>>
                     => ZeroFilled(analysis_results.all_category)
                /\ ("factory" \in Combined.columns
                      /\ \A i \in 1..Len(Combined.rows) : ~FlagIsZero(Combined.rows[i]))
                     => ZeroFilled(analysis_results.handmade_category)

\* C17 witness: a report over rows none of which has the flag 0: the
\* handmade category is zero-filled and the 'all' category is not.
C17_Witness ==
    /\ returned = "value"
    /\ "factory" \in Combined.columns
    /\ Combined.rows # <<>>
    /\ \A i \in 1..Len(Combined.rows) : ~FlagIsZero(Combined.rows[i])
    /\ ZeroFilled(analysis_results.handmade_category)
    /\ analysis_results.all_category.total_products_analyzed = Len(Combined.rows)
    /\ analysis_results.all_category.business_insights # NoInsights

-----------------------------------------------------------------------------
(* Further claims about the competitor matcher, checked under SpecMatcher *)

\* The selected cohort of a row of ours has a unit price.
CohortHasPrice(o) ==
    \E i \in FirstCohort(o).members : ~isna(CompetitorRows[i].unit_price)

\* A row of ours that is complete and whose selected cohort has a unit price.
Qualifies(o) == Complete(o) /\ CohortHasPrice(o)

QualifyingRows == Select(OurRows, Qualifies)

\* C18: the entries of a platform are those of the rows of ours, in row
\* order, whose volume, pack count and unit price are all present and whose
\* selected cohort (the most specific tier with a competitor row) has a unit
\* price; a row whose selected cohort has no unit price gets no entry, even
\* when a less specific tier has one.
C18_EntryIffCompleteAndPriced ==
    Matched =>
        /\ Len(EntriesOf(result)) = Len(QualifyingRows)
        /\ \A i \in 1..Len(QualifyingRows) :
              /\ EntriesOf(result)[i].our_unit_price = QualifyingRows[i].unit_price
              /\ EntriesOf(result)[i].product
                   = <<QualifyingRows[i].product_name, QualifyingRows[i].volume,
                       QualifyingRows[i].count>>
              /\ EntriesOf(result)[i].comparison_type.tier
                   = FirstCohort(QualifyingRows[i]).tier

\* C18 witness: a complete row of ours whose exact cohort has no unit price
\* gets no entry although another competitor row of the platform has one.
C18_Witness ==
    /\ Matched
    /\ Len(OurRows) = 1
    /\ Complete(OurRows[1])
    /\ FirstCohort(OurRows[1]).tier = TierExact
    /\ ~CohortHasPrice(OurRows[1])
    /\ \E i \in WholePlatform : ~isna(CompetitorRows[i].unit_price)
    /\ EntriesOf(result) = <<>>

-----------------------------------------------------------------------------
(* Inputs around the bounds of the similar-volume tier: one row of ours of *)
(* 500 ml x 1 and competitor rows of 399, 400, 600 and 601 ml, with our    *)
(* pack count and with another, at unit prices that give a cohort mean of  *)
(* 0 and means above and below our price.                                  *)

CohortOurRows ==
    {Row(OUR_BRAND, "X", 500, 1, p, "P") : p \in {1000, 1250}}

CohortCompetitorRows ==
    {Row("A", "Y", 399, 1, 1000, "P"),
     Row("A", "Y", 400, 1, 1000, "P"),
     Row("A", "Y", 600, 1, 1000, "P"),
     Row("A", "Y", 601, 1, 1000, "P"),
     Row("A", "Y", 400, 2, 1000, "P"),
     Row("A", "Y", 600, 2, 1000, "P"),
     Row("A", "Y", 400, 1, 0, "P"),
     Row("A", "Y", 600, 1, 1500, "P")}

CohortTables ==
    {[columns |-> AllColumns, rows |-> <<ours>> \o competitors] :
        ours \in CohortOurRows,
        competitors \in SeqsUpTo(CohortCompetitorRows, MaxCohortRows)}

InitCohort ==
    /\ df \in CohortTables
    /\ method = ""
    /\ result = <<>>
    /\ IdlePipeline

NextCohort == CallDetailedCompetitivenessAnalysis

SpecCohort == InitCohort /\ [][NextCohort]_vars

\* The members of a cohort as rows, in table order.
RECURSIVE RowsAt(_, _)
RowsAt(rows, members) ==
    IF rows = <<>> THEN <<>>
    ELSE (IF Len(rows) \in members THEN RowsAt(SubSeq(rows, 1, Len(rows) - 1), members)
                                         \o <<rows[Len(rows)]>>
          ELSE RowsAt(SubSeq(rows, 1, Len(rows) - 1), members))

\* C19: when no competitor row has our volume and our pack count, the
\* similar-volume tier selects exactly the competitor rows of the platform
\* with our pack count and a volume v with 0.8 * ours <= v <= 1.2 * ours,
\* both bounds included, and labels the entry with the two bounds; a row
\* with another pack count or with a volume beyond a bound is not selected.
C19_SimilarCohortInclusive ==
    Matched =>
        \A k \in 1..Len(OurRows) :
            (Complete(OurRows[k]) /\ ExactCohort(OurRows[k]) = {})
            => \E best \in {FindBestCompetitors(OurRows[k].volume, OurRows[k].count,
                                                 CompetitorRows)} :
                  /\ SimilarCohort(OurRows[k]) # {}
                       => /\ best.selected = RowsAt(CompetitorRows, SimilarCohort(OurRows[k]))
                          /\ best.comparison_type.tier = TierSimilar
                          /\ 5 * best.comparison_type.range_min = 4 * OurRows[k].volume
                          /\ 5 * best.comparison_type.range_max = 6 * OurRows[k].volume
                          /\ \A e \in Range(EntriesOf(result)) :
                                /\ e.comparison_type = best.comparison_type
                                /\ e.competitor_count = Cardinality(SimilarCohort(OurRows[k]))
                  /\ SimilarCohort(OurRows[k]) = {}
                       => best.comparison_type.tier # TierSimilar

\* C19 witness: competitor rows at exactly 0.8 and 1.2 times our volume with
\* our pack count are both in the cohort of the entry.
C19_Witness ==
    /\ Matched
    /\ Len(OurRows) = 1
    /\ Len(CompetitorRows) = 2
    /\ \E i, j \in SimilarCohort(OurRows[1]) :
          /\ 5 * CompetitorRows[i].volume = 4 * OurRows[1].volume
          /\ 5 * CompetitorRows[j].volume = 6 * OurRows[1].volume
    /\ Len(EntriesOf(result)) = 1
    /\ EntriesOf(result)[1].comparison_type.tier = TierSimilar
    /\ EntriesOf(result)[1].competitor_count = 2

\* The unit prices of the selected cohort of a row of ours: their sum and
\* their number, the cohort mean being PriceSum / PriceN.
PricedMembers(o) ==
    {i \in FirstCohort(o).members : ~isna(CompetitorRows[i].unit_price)}

RECURSIVE SumPrices(_)
SumPrices(S) ==
    IF S = {} THEN 0
    ELSE LET i == CHOOSE j \in S : TRUE
         IN CompetitorRows[i].unit_price + SumPrices(S \ {i})

PriceSum(o) == SumPrices(PricedMembers(o))

PriceN(o) == Cardinality(PricedMembers(o))

-----------------------------------------------------------------------------
(* Inputs of the competitor detail list: one row of ours and an exact      *)
(* cohort of up to MaxDetailRows rows, with and without a unit price, under *)
(* a configured main_competitors_count of 1 to MaxMainCompetitors.          *)

DetailCompetitorRows ==
    {Row("A", "Y", 500, 1, 1000, "P"), Row("B", "Z", 500, 1, NaN, "P")}

DetailTables ==
    {[columns |-> AllColumns,
      rows    |-> <<Row(OUR_BRAND, "X", 500, 1, 1200, "P")>> \o competitors] :
        competitors \in SeqsUpTo(DetailCompetitorRows, MaxDetailRows)}

InitDetails ==
    /\ df \in DetailTables
    /\ method = ""
    /\ result = <<>>
    /\ df_list = <<>>
    /\ IdleRun
    /\ IdleStorage
    /\ analysis_settings \in {[main_competitors_count |-> n] : n \in 1..MaxMainCompetitors}
    /\ business_insights_config =
          [high_engagement_multiplier |-> high_engagement_multiplier,
           good_engagement_multiplier |-> good_engagement_multiplier]

NextDetails == CallDetailedCompetitivenessAnalysis

SpecDetails == InitDetails /\ [][NextDetails]_vars

MinOf(a, b) == IF a < b THEN a ELSE b

\* C21: the detail list of an entry holds the first min(N, cohort size)
\* members of the selected cohort, N being the configured
\* main_competitors_count whatever its value, and a member without a unit
\* price carries the no-price marker instead of a price.
C21_DetailsAreFirstN ==
    Matched =>
        \A i \in 1..Len(QualifyingRows) :
            LET cohort == RowsAt(CompetitorRows, FirstCohort(QualifyingRows[i]).members)
                details == EntriesOf(result)[i].main_competitors
            IN /\ Len(details) = MinOf(analysis_settings.main_competitors_count, Len(cohort))
               /\ \A j \in 1..Len(details) :
                     /\ j <= Len(cohort)
                     /\ details[j].brand = cohort[j].brand
                     /\ details[j].volume = cohort[j].volume
                     /\ details[j].count = cohort[j].count
                     /\ isna(cohort[j].unit_price) => details[j].price = NoPriceInfo
                     /\ ~isna(cohort[j].unit_price) => details[j].price = cohort[j].unit_price

-----------------------------------------------------------------------------
(* Further claim about the platforms of the matcher, checked under SpecFault *)

\* A row of ours on the platform for which the analysis of a single product
\* returns an entry.
ProducesEntryOn(platform) ==
    \E i \in 1..Len(df.rows) :
        /\ IsOurs(df.rows[i])
        /\ df.rows[i].platform = platform
        /\ LET OnPlatform(r) == r.platform = platform
           IN ~SingleProductIsNone(df.rows[i],
                                   Select(Select(df.rows, IsCompetitor), OnPlatform))

\* C22: a platform is a key of the competitiveness result if and only if a
\* row of ours on it produced an entry; a key is never repeated and never
\* has an empty list of entries.
C22_PlatformIffEntry ==
    Matched =>
        /\ \A i \in 1..Len(result) : result[i].entries # <<>>
        /\ \A i, j \in 1..Len(result) : result[i].platform = result[j].platform => i = j
        /\ \A i \in 1..Len(result) :
              \E k \in 1..Len(df.rows) : df.rows[k].platform = result[i].platform
        /\ \A k \in 1..Len(df.rows) :
              (\E i \in 1..Len(result) : result[i].platform = df.rows[k].platform)
                <=> ProducesEntryOn(df.rows[k].platform)

\* C22 witness: of two platforms with a row of ours, the one that also has
\* a competitor row is in the result and the other is absent.
C22_Witness ==
    /\ Matched
    /\ Len(result) = 1
    /\ \E i, j \in 1..Len(df.rows) :
          /\ IsOurs(df.rows[i])
          /\ IsOurs(df.rows[j])
          /\ df.rows[i].platform = result[1].platform
          /\ df.rows[j].platform # result[1].platform
          /\ \A k \in 1..Len(df.rows) :
                IsCompetitor(df.rows[k]) => df.rows[k].platform = result[1].platform

-----------------------------------------------------------------------------
(* Further claim about the scoring, checked under SpecScorer *)

Ranked == method = "_calculate_performance_rankings"

\* The rows of ours with the product name, volume and pack count of a key.
KeyRows(key) ==
    {i \in 1..Len(df.rows) :
        /\ df.rows[i].brand = OUR_BRAND
        /\ <<df.rows[i].product_name, df.rows[i].volume, df.rows[i].count>> = key}

\* The greatest value of a set of cells, a missing cell counting as 0.
MaxOrZero(S) == IF S \ {NaN} = {} THEN 0 ELSE Max(S \ {NaN})

\* C23: each unique product of ours is scored once, with the greatest review
\* count and the greatest rating over the rows of ours with its key, each
\* taken on its own and a missing value counting as 0; the score is their
\* product when the rating is positive and 0 otherwise.
C23_ScoreFromMaxima ==
    (Ranked /\ HasReviewRating(df)) =>
        /\ \A i, j \in 1..Len(result) :
              result[i].product_key = result[j].product_key => i = j
        /\ {result[i].product_key : i \in 1..Len(result)}
             = {<<df.rows[k].product_name, df.rows[k].volume, df.rows[k].count>> :
                  k \in {n \in 1..Len(df.rows) : df.rows[n].brand = OUR_BRAND}}
        /\ \A i \in 1..Len(result) :
              LET rows == KeyRows(result[i].product_key)
                  reviews == MaxOrZero({df.rows[k].reviews : k \in rows})
                  rating == MaxOrZero({df.rows[k].rating : k \in rows})
              IN /\ result[i].reviews = reviews
                 /\ result[i].rating = rating
                 /\ result[i].performance_score
                      = IF rating > 0 THEN reviews * rating ELSE 0

\* C23 witness: the greatest review count and the greatest rating of a
\* product come from two different rows.
C23_Witness ==
    /\ Ranked
    /\ Len(result) = 1
    /\ \E i, j \in KeyRows(result[1].product_key) :
          /\ df.rows[i].reviews = result[1].reviews
          /\ df.rows[i].rating < result[1].rating
          /\ df.rows[j].rating = result[1].rating
          /\ df.rows[j].reviews < result[1].reviews
    /\ result[1].performance_score = result[1].reviews * result[1].rating

-----------------------------------------------------------------------------
(* Further claim about the identity resolver, checked under SpecResolver *)

\* The rows of the table with the identity of a unique product.
GroupRows(p) ==
    {i \in 1..Len(df.rows) :
        /\ ~isnaText(df.rows[i].brand) /\ ~isnaText(df.rows[i].product_name)
        /\ ~isna(df.rows[i].volume) /\ ~isna(df.rows[i].count)
        /\ IdentityOf(df.rows[i]) = IdentityOf(p)}

\* v is the least of the values of S that are not missing, or missing when
\* all of them are.
LeastPresent(v, S) ==
    IF S \ {NaN} = {} THEN isna(v)
    ELSE v \in S \ {NaN} /\ \A x \in S \ {NaN} : v <= x

\* C24: the lowest price and the unit price of a unique product are the
\* least values of those columns that are not missing over the rows of its
\* group, and its platform list holds each platform of those rows once and
\* no other.
C24_GroupAggregates ==
    (Resolved /\ Range(KeyColumns) \subseteq df.columns) =>
        \A i \in 1..Len(result.rows) :
            LET p == result.rows[i]
                rows == GroupRows(p)
            IN /\ rows # {}
               /\ LeastPresent(p.lowest_price, {df.rows[k].lowest_price : k \in rows})
               /\ LeastPresent(p.unit_price, {df.rows[k].unit_price : k \in rows})
               /\ Range(p.platforms) = {df.rows[k].platform : k \in rows}
               /\ Len(p.platforms) = Cardinality(Range(p.platforms))

\* C24 witness: a group of three rows on two platforms, one of them without
\* prices, whose least unit price and least lowest price are on two rows.
C24_Witness ==
    /\ Resolved
    /\ Len(result.rows) = 1
    /\ Cardinality(GroupRows(result.rows[1])) = 3
    /\ \E i, j, k \in GroupRows(result.rows[1]) :
          /\ isna(df.rows[i].unit_price) /\ isna(df.rows[i].lowest_price)
          /\ df.rows[j].unit_price = result.rows[1].unit_price
          /\ df.rows[j].lowest_price > result.rows[1].lowest_price
          /\ df.rows[k].lowest_price = result.rows[1].lowest_price
          /\ df.rows[k].unit_price > result.rows[1].unit_price
    /\ Len(result.rows[1].platforms) = 2

-----------------------------------------------------------------------------
(* The scoring of our products under configured engagement multipliers     *)
(* other than the ones of the source (in tenths: 2.0 or 3.0, 1.0 or 1.5).   *)

EngagementConfigs ==
    {[high_engagement_multiplier |-> h, good_engagement_multiplier |-> g] :
        h \in {high_engagement_multiplier, 30},
        g \in {good_engagement_multiplier, 15}}

InitThresholds ==
    /\ df \in ScorerTables
    /\ method = ""
    /\ result = <<>>
    /\ df_list = <<>>
    /\ IdleRun
    /\ IdleStorage
    /\ analysis_settings = [main_competitors_count |-> main_competitors_count]
    /\ business_insights_config \in EngagementConfigs

NextThresholds == CallAnalyzeOurProducts

SpecThresholds == InitThresholds /\ [][NextThresholds]_vars

\* The class by the ratio r / a under the configured multipliers, for a > 0.
ConfiguredRatioClass(r) ==
    IF 10 * r * AvgN >= business_insights_config.high_engagement_multiplier * AvgSum
    THEN "high"
    ELSE IF 10 * r * AvgN >= business_insights_config.good_engagement_multiplier * AvgSum
    THEN "above average"
    ELSE "normal"

\* C25: the ratios that separate "high" and "above average" are the
\* configured high_engagement_multiplier and good_engagement_multiplier, so
\* that a product with reviews is classified by them whatever their values.
C25_ReactionByConfiguredMultipliers ==
    (Scored /\ HasReviewRating(df)) =>
        \A i \in 1..Len(result) :
            (AvgN > 0 /\ EntryReviews(result[i]) > 0)
            => result[i].market_reaction.class
                 = ConfiguredRatioClass(EntryReviews(result[i]))

-----------------------------------------------------------------------------
(* Further claims about the pipeline, checked under Spec *)

\* Every row and every unique product of a category is counted once, as ours
\* or as a competitor's, and there are no more unique products than rows.
CountsAddUp(category) ==
    /\ category.our_products_count + category.competitor_products_count
         = category.total_products_analyzed
    /\ category.our_unique_products_count + category.competitor_unique_products_count
         = category.total_unique_products
    /\ category.total_unique_products <= category.total_products_analyzed
    /\ category.our_products_count >= 0
    /\ category.competitor_products_count >= 0
    /\ category.our_unique_products_count >= 0
    /\ category.competitor_unique_products_count >= 0

\* C26: in every category result of a report the counts of ours and of the
\* competitors add up to the totals, for the rows and for the unique
\* products, and the unique products are no more than the rows.
C26_CountsAddUp ==
    returned = "value" =>
        /\ CountsAddUp(analysis_results.handmade_category)
        /\ CountsAddUp(analysis_results.all_category)
        /\ analysis_results.all_category.total_products_analyzed = Len(Combined.rows)

\* C26 witness: a category of a row of ours and a row of a competitor, two
\* unique products, one of each.
C26_Witness ==
    /\ returned = "value"
    /\ analysis_results.all_category.total_products_analyzed = 2
    /\ analysis_results.all_category.our_products_count = 1
    /\ analysis_results.all_category.competitor_products_count = 1
    /\ analysis_results.all_category.total_unique_products = 2
    /\ analysis_results.all_category.our_unique_products_count = 1
    /\ analysis_results.all_category.competitor_unique_products_count = 1

\* C27: in every report the handmade category does not exceed the 'all'
\* category in its rows, its rows of ours, its rows of competitors and its
\* unique products.
C27_HandmadeWithinAll ==
    returned = "value" =>
        /\ analysis_results.handmade_category.total_products_analyzed
             <= analysis_results.all_category.total_products_analyzed
        /\ analysis_results.handmade_category.our_products_count
             <= analysis_results.all_category.our_products_count
        /\ analysis_results.handmade_category.competitor_products_count
             <= analysis_results.all_category.competitor_products_count
        /\ analysis_results.handmade_category.total_unique_products
             <= analysis_results.all_category.total_unique_products

\* C27 witness: a report whose handmade category has one of the two rows of
\* the 'all' category.
C27_Witness ==
    /\ returned = "value"
    /\ analysis_results.handmade_category.total_products_analyzed = 1
    /\ analysis_results.all_category.total_products_analyzed = 2
    /\ analysis_results.handmade_category.total_unique_products = 1
    /\ analysis_results.all_category.total_unique_products = 2

-----------------------------------------------------------------------------
(* Further claim about the entries of the matcher, checked under            *)
(* SpecMatcher.  Unit prices are whole numbers of won: their sum is exact   *)
(* and Series.mean() is the correctly rounded quotient, so that the mean is *)
(* kept as the fraction PriceSum / PriceN.                                  *)

\* C28: in every entry the position and the price gap agree: with "lowest
\* price" or "below average" our price is at or below the cohort mean (a gap
\* <= 0), with "above average" or "highest price" it is above the mean (a
\* gap > 0); the cohort has at least one member and one price, and its
\* minimum, mean and maximum are in that order.
C28_PositionAgreesWithGap ==
    Matched =>
        \A i \in 1..Len(QualifyingRows) :
            LET o == QualifyingRows[i]
                e == EntriesOf(result)[i]
                gap_n == o.unit_price * PriceN(o) - PriceSum(o)
            IN /\ e.competitor_count >= 1
               /\ PriceN(o) >= 1
               /\ e.competitor_min * PriceN(o) <= PriceSum(o)
               /\ PriceSum(o) <= e.competitor_max * PriceN(o)
               /\ e.market_position \in {LowestPrice, BelowAverage}
                    => gap_n <= 0 /\ e.price_gap <= 0
               /\ e.market_position \in {AboveAverage, HighestPrice}
                    => gap_n > 0 /\ e.price_gap >= 0
               /\ e.market_position
                    \in {LowestPrice, BelowAverage, AboveAverage, HighestPrice}

\* C28 witness: our price is above the mean of a cohort of two prices and
\* not above its maximum: the entry says above average with a positive gap.
C28_Witness ==
    /\ Matched
    /\ Len(QualifyingRows) = 1
    /\ PriceN(QualifyingRows[1]) = 2
    /\ EntriesOf(result)[1].competitor_min < EntriesOf(result)[1].competitor_max
    /\ EntriesOf(result)[1].market_position = AboveAverage
    /\ EntriesOf(result)[1].price_gap > 0


-----------------------------------------------------------------------------
(* The cleanup of the remote directory: a storage with up to MaxStoredFiles *)
(* analysis files saved before the clock started, beside files that are not *)
(* analysis files by the start or by the end of their name.                 *)

StoredStamps == (1 - MaxStoredFiles)..0

OtherFiles ==
    {[start |-> "analysis_results", stamp |-> 0, end |-> ".csv"],
     [start |-> "competitor_price", stamp |-> 0, end |-> ".json"]}

InitCleanup ==
    /\ df_list = <<>>
    /\ IdleRun
    /\ IdleMethod
    /\ token \in BOOLEAN
    /\ store \in SUBSET StoredStamps
    /\ other_files \in SUBSET OtherFiles
    /\ save_result = NoSave
    /\ shown = NotShown
    /\ DefaultConfig

NextCleanup ==
    \/ AutoSaveWithCleanup
    \/ ClearOldAnalysisResults

SpecCleanup == InitCleanup /\ [][NextCleanup]_vars

\* The directory as it is now.
Directory == Listing(store, other_files)

ListedAnalysisFiles ==
    {f \in result.before : f.start = "analysis_results" /\ f.end = ".json"}

\* Those of them with fewer than keep_latest greater names among them.
GreatestNamed ==
    {f \in ListedAnalysisFiles :
        Cardinality({g \in ListedAnalysisFiles : g.stamp > f.stamp}) < result.keep}

\* C30: clear_old_analysis_results(keep_latest = k) requests the deletion of
\* analysis files only and of none of the k greatest-named ones, which all
\* stay; nothing but a file it asked to delete is gone; it requests nothing
\* when the listing holds at most k analysis files; its count is the number
\* of deletes that succeeded; and when it obtained the listing and every
\* delete succeeded, the analysis files left are exactly the k greatest-named.
C30_CleanupKeepsLatest ==
    method = "clear_old_analysis_results" =>
        /\ result.requests \subseteq ListedAnalysisFiles \ GreatestNamed
        /\ result.deleted \subseteq result.requests
        /\ Directory \subseteq result.before
        /\ result.before \ Directory \subseteq result.requests
        /\ GreatestNamed \subseteq Directory
        /\ Cardinality(ListedAnalysisFiles) <= result.keep
              => result.requests = {} /\ Directory = result.before
        /\ result.deleted_count = Cardinality(result.deleted)
        /\ (result.returned /\ result.deleted = result.requests)
              => Directory = (result.before \ ListedAnalysisFiles) \cup GreatestNamed

C30_Witness ==
    /\ method = "clear_old_analysis_results"
    /\ result.returned
    /\ result.keep = 2
    /\ Cardinality(ListedAnalysisFiles) = 3
    /\ result.before \ ListedAnalysisFiles = OtherFiles
    /\ result.deleted = result.requests
    /\ result.deleted_count = 1
    /\ Directory = OtherFiles \cup GreatestNamed

=============================================================================
